---- MODULE Spec2Model ----
(***************************************************************************)
(* Model of the course-table extraction engine of                          *)
(* backend/landingai_service.py (LandingAIService): text normalisation,    *)
(* section location, course matching, section assignment, deduplication,   *)
(* result organisation (extract_courses) and reconciliation with field     *)
(* normalisation (_post_process_courses).                                  *)
(*                                                                         *)
(* Python strings are TLA+ strings; the character at 1-based index i of s  *)
(* is SubSeq(s, i, i).  Python's None is the sentinel string PyNone, which *)
(* holds characters no modelled text contains.                             *)
(***************************************************************************)
EXTENDS Integers, Sequences, FiniteSets, TLC

VARIABLES
    markdown,           \* the raw text handed to the engine
    pc,                 \* "start", "extracted", "post_processed", and the assigner's "assign_in"/"assign_out"
    extract,            \* the last call of _regex_extract_courses, a record of its locals:
                        \*   clean_text         the normalised text
                        \*   section_positions  the sorted list of <<offset, section_type>>
                        \*   full_matches       the matches re.finditer(pattern_full, ...) yields
                        \*   partial_matches    the matches re.finditer(pattern_partial, ...) yields
                        \*   courses            the list it returns
                        \*   origins            history: origins[i] is the match courses[i] was built from
    primary,            \* the result dict handed to _post_process_courses, as it was on entry
    result,             \* the dict extract_courses / _post_process_courses returns
    a_pos,              \* section assigner alone: the candidate position
    a_bounds,           \* section assigner alone: the boundary list
    a_section,          \* section assigner alone: the section assigned
    io,                 \* how parse_document_to_markdown ended in extract_courses:
                        \*   pypdf2     "ok", "raised" or "not_called"
                        \*   landingai  "ok", "raised" or "not_called"
    session,            \* app.py: the user the client's session cookie identifies, or NoUser
    attempts,           \* app.py: _fallback_login_attempts, remote address -> times
    now,                \* app.py: time.time(), in seconds
    db,                 \* app.py: the committed rows of the Course, UserCourse and
                        \*   AdvisingSheet tables
    files,              \* app.py: the names of the files saved under uploads/
    resp,               \* app.py: the last request and the response to it (for a login,
                        \*   credentials tells whether its username and password were right)
    inflight,           \* app.py: per worker thread, the POST /api/user/courses request
                        \*   it is in the middle of: the body, the user and the row
                        \*   its query found
    seen                \* history, kept from the responses alone:
                        \*   logged  the user of the last login answered 200, NoUser
                        \*           once a logout was answered 200
                        \*   fails   per remote address, the times of its last five
                        \*           logins answered 401
                        \*   rejected  per remote address, the time of its last login
                        \*           answered 429, -1 when there is none
                        \*   streak  the same as fails, counted from its last login
                        \*           answered 200

engine == <<markdown, pc, extract, primary, result, a_pos, a_bounds, a_section, io>>

web == <<session, attempts, now, db, files, resp, seen, inflight>>

vars == <<engine, web>>

(***************************************************************************)
(* Characters and strings                                                  *)
(***************************************************************************)
PyNone == "<None>"

\* Stands for U+00A0, the character html.unescape gives for &nbsp;
NBSP == "~"

\* s[i-1:i]: the character at 1-based index i, "" outside the string
Ch(s, i) == IF i >= 1 /\ i <= Len(s) THEN SubSeq(s, i, i) ELSE ""

UpperLetters ==
    {"A", "B", "C", "D", "E", "F", "G", "H", "I", "J", "K", "L", "M",
     "N", "O", "P", "Q", "R", "S", "T", "U", "V", "W", "X", "Y", "Z"}

LowerLetters ==
    {"a", "b", "c", "d", "e", "f", "g", "h", "i", "j", "k", "l", "m",
     "n", "o", "p", "q", "r", "s", "t", "u", "v", "w", "x", "y", "z"}

LowerOf ==
    ("A" :> "a") @@ ("B" :> "b") @@ ("C" :> "c") @@ ("D" :> "d") @@ ("E" :> "e") @@
    ("F" :> "f") @@ ("G" :> "g") @@ ("H" :> "h") @@ ("I" :> "i") @@ ("J" :> "j") @@
    ("K" :> "k") @@ ("L" :> "l") @@ ("M" :> "m") @@ ("N" :> "n") @@ ("O" :> "o") @@
    ("P" :> "p") @@ ("Q" :> "q") @@ ("R" :> "r") @@ ("S" :> "s") @@ ("T" :> "t") @@
    ("U" :> "u") @@ ("V" :> "v") @@ ("W" :> "w") @@ ("X" :> "x") @@ ("Y" :> "y") @@
    ("Z" :> "z")

Digits == {"0", "1", "2", "3", "4", "5", "6", "7", "8", "9"}

DigitValue ==
    ("0" :> 0) @@ ("1" :> 1) @@ ("2" :> 2) @@ ("3" :> 3) @@ ("4" :> 4) @@
    ("5" :> 5) @@ ("6" :> 6) @@ ("7" :> 7) @@ ("8" :> 8) @@ ("9" :> 9)

\* what \s matches in a str pattern, among the characters modelled
Whitespace == {" ", "\n", "\t", NBSP}

IsLetter(c) == c \in UpperLetters \/ c \in LowerLetters
IsDigit(c) == c \in Digits
IsWordChar(c) == IsLetter(c) \/ IsDigit(c) \/ c = "_"

\* s[a:b] of Python (0-based, end exclusive, clamped)
Slice(s, a, b) ==
    LET hi == IF b < Len(s) THEN b ELSE Len(s)
    IN  IF a >= hi THEN "" ELSE SubSeq(s, a + 1, hi)

Drop(s, n) == Slice(s, n, Len(s))

LowerChar(c) == IF c \in UpperLetters THEN LowerOf[c] ELSE c

\* str.lower(), by halves
RECURSIVE lower(_)
lower(s) ==
    IF Len(s) <= 1 THEN LowerChar(s)
    ELSE lower(Slice(s, 0, Len(s) \div 2)) \o lower(Drop(s, Len(s) \div 2))

\* 0-based offset of the first occurrence of needle in hay from offset from, or -1
Find(hay, needle, from) ==
    LET n == Len(needle)
        at == {i \in from..(Len(hay) - n) :
                  Ch(hay, i + 1) = Ch(needle, 1) /\ Slice(hay, i, i + n) = needle}
    IN  IF at = {} THEN -1 ELSE CHOOSE i \in at : \A j \in at : i <= j

\* needle in hay
Contains(hay, needle) == Find(hay, needle, 0) >= 0

RECURSIVE LStrip(_)
LStrip(s) == IF s /= "" /\ Ch(s, 1) \in Whitespace THEN LStrip(Drop(s, 1)) ELSE s

RECURSIVE RStrip(_)
RStrip(s) ==
    IF s /= "" /\ Ch(s, Len(s)) \in Whitespace THEN RStrip(Slice(s, 0, Len(s) - 1)) ELSE s

\* str.strip()
strip(s) == LStrip(RStrip(s))

(***************************************************************************)
(* Step 1 of _regex_extract_courses: the text normaliser                   *)
(***************************************************************************)
\* re.sub(r'<[^>]+>', ' ', s): a tag is '<', at least one character that is not '>', '>'
RECURSIVE StripTags(_)
StripTags(s) ==
    LET tags == {i \in 0..(Len(s) - 1) : Ch(s, i + 1) = "<" /\ Find(s, ">", i + 1) >= i + 2}
    IN  IF tags = {} THEN s
        ELSE LET i == CHOOSE t \in tags : \A o \in tags : t <= o
             IN  Slice(s, 0, i) \o " " \o StripTags(Drop(s, Find(s, ">", i + 1) + 1))

\* the named character references html.unescape knows with and without ';',
\* longest name first
EntityNames == <<"nbsp", "quot", "amp", "lt", "gt">>

EntityChar ==
    ("nbsp" :> NBSP) @@ ("quot" :> "\"") @@ ("amp" :> "&") @@ ("lt" :> "<") @@ ("gt" :> ">")

\* the entity name that follows the '&' at the head of s, or ""
EntityAt(s) ==
    LET hits == {k \in 1..Len(EntityNames) :
                    Slice(s, 1, 1 + Len(EntityNames[k])) = EntityNames[k]}
    IN  IF hits = {} THEN "" ELSE EntityNames[CHOOSE k \in hits : \A j \in hits : k <= j]

\* html.unescape
RECURSIVE unescape(_)
unescape(s) ==
    LET refs == {i \in 0..(Len(s) - 1) : Ch(s, i + 1) = "&" /\ EntityAt(Drop(s, i)) /= ""}
    IN  IF refs = {} THEN s
        ELSE LET i == CHOOSE r \in refs : \A o \in refs : r <= o
                 name == EntityAt(Drop(s, i))
                 after == Drop(s, i + 1 + Len(name))
             IN  Slice(s, 0, i) \o EntityChar[name]
                    \o unescape(IF after /= "" /\ Ch(after, 1) = ";" THEN Drop(after, 1) ELSE after)

\* re.sub(r'\s+', ' ', s)
\* by halves: a run of whitespace that spans the two halves gives one space
RECURSIVE CollapseWhitespace(_)
CollapseWhitespace(s) ==
    IF Len(s) <= 1 THEN (IF s \in Whitespace THEN " " ELSE s)
    ELSE LET l == CollapseWhitespace(Slice(s, 0, Len(s) \div 2))
             r == CollapseWhitespace(Drop(s, Len(s) \div 2))
         IN  IF Ch(l, Len(l)) = " " /\ Ch(r, 1) = " " THEN l \o Drop(r, 1) ELSE l \o r

\* A plausible slip: the entities decoded before the tags are taken out
CleanTextDecodeFirst(md) == CollapseWhitespace(StripTags(unescape(md)))

CleanText(md) == CollapseWhitespace(unescape(StripTags(md)))

(***************************************************************************)
(* Step 2: the section locator                                             *)
(***************************************************************************)
\* the section_patterns dict, in its insertion order
SectionTypes == <<"CORE", "CONCENTRATION", "ELECTIVE">>

section_patterns ==
    ("CORE" :> "CISAT CORE COURSES") @@
    ("CONCENTRATION" :> "CONCENTRATION COURSE") @@
    ("ELECTIVE" :> "ELECTIVE or SECOND CONCENTRATION")

\* re.search(pattern, clean_text, re.IGNORECASE).start(), or -1 when there is no
\* match; lowered is clean_text.lower()
SearchStart(pattern, lowered) == Find(lowered, lower(pattern), 0)

\* the loop that appends (match.start(), section_type) for every pattern that matches
RECURSIVE FoundSections(_, _)
FoundSections(lowered, k) ==
    IF k > Len(SectionTypes) THEN <<>>
    ELSE LET at == SearchStart(section_patterns[SectionTypes[k]], lowered)
         IN  (IF at >= 0 THEN <<(<<at, SectionTypes[k]>>)>> ELSE <<>>)
                \o FoundSections(lowered, k + 1)

\* Python's order on the (int, str) tuples of section_positions
TupleLess(a, b) ==
    \/ a[1] < b[1]
    \/ a[1] = b[1] /\ a[2] = "CONCENTRATION" /\ b[2] \in {"CORE", "ELECTIVE"}
    \/ a[1] = b[1] /\ a[2] = "CORE" /\ b[2] = "ELECTIVE"

RECURSIVE InsertSorted(_, _)
InsertSorted(x, sorted) ==
    IF sorted = <<>> THEN <<x>>
    ELSE IF TupleLess(x, Head(sorted)) THEN <<x>> \o sorted
         ELSE <<Head(sorted)>> \o InsertSorted(x, Tail(sorted))

\* list.sort()
RECURSIVE SortTuples(_)
SortTuples(list) ==
    IF list = <<>> THEN <<>>
    ELSE InsertSorted(list[Len(list)], SortTuples(SubSeq(list, 1, Len(list) - 1)))

\* A plausible slip: the boundaries stay in the order the kinds are searched
SectionPositionsUnsorted(text) == FoundSections(lower(text), 1)

\* section_positions after section_positions.sort()
SectionPositions(text) == SortTuples(FoundSections(lower(text), 1))

(***************************************************************************)
(* Step 3: the course matcher.  clean_text holds single spaces only, so a  *)
(* \s+ of the patterns is one space and the patterns are matched on the    *)
(* space-separated words of the text, each with its 0-based offset.        *)
(***************************************************************************)
\* the words of s[lo:hi], split at the space nearest the middle
RECURSIVE WordsBetween(_, _, _)
WordsBetween(s, lo, hi) ==
    LET spaces == {i \in lo..(hi - 1) : Ch(s, i + 1) = " "}
        far(i) == IF 2 * i >= lo + hi THEN 2 * i - lo - hi ELSE lo + hi - 2 * i
    IN  IF lo >= hi THEN <<>>
        ELSE IF spaces = {} THEN <<[w |-> Slice(s, lo, hi), at |-> lo]>>
        ELSE LET mid == CHOOSE i \in spaces : \A o \in spaces : far(i) <= far(o)
             IN  WordsBetween(s, lo, mid) \o WordsBetween(s, mid + 1, hi)

Words(s) == WordsBetween(s, 0, Len(s))

AllLetters(w) == w /= "" /\ \A i \in 1..Len(w) : IsLetter(Ch(w, i))
AllDigits(w) == w /= "" /\ \A i \in 1..Len(w) : IsDigit(Ch(w, i))

\* \b([A-Z]{2,4})\s : the 1-based index in w where a department code that ends
\* the word starts, or 0
DeptStart(w) ==
    LET others == {i \in 1..Len(w) : ~IsLetter(Ch(w, i))}
        j == IF others = {} THEN 1 ELSE 1 + CHOOSE i \in others : \A o \in others : o <= i
    IN  IF /\ j <= Len(w)
           /\ Len(w) - j + 1 \in 2..4
           /\ (j = 1 \/ ~IsWordChar(Ch(w, j - 1)))
        THEN j ELSE 0

\* (Fall|Spring) under re.IGNORECASE
IsSeason(w) == lower(w) \in {"fall", "spring"}

\* \s+(\d{4}) : the word starts with four digits
HasYear(w) == Len(w) >= 4 /\ AllDigits(SubSeq(w, 1, 4))

\* ([A-Za-z\s]+?)\s+(\d) : the title runs up to the first word that is not letters
RECURSIVE TitleEnd(_, _)
TitleEnd(T, m) == IF m > Len(T) \/ ~AllLetters(T[m].w) THEN m ELSE TitleEnd(T, m + 1)

NoMatch == [start |-> -1]

\* the words from m on are: one digit, a season, a year
TailMatches(T, m) ==
    /\ m + 2 <= Len(T)
    /\ Len(T[m].w) = 1 /\ IsDigit(T[m].w)
    /\ IsSeason(T[m + 1].w)
    /\ HasYear(T[m + 2].w)

\* pattern_full matched at word k, not before offset from
MatchFullAt(s, T, k, from) ==
    LET j == DeptStart(T[k].w)
        m == TitleEnd(T, k + 2)
    IN  IF /\ j > 0
           /\ T[k].at + j - 1 >= from
           /\ k + 1 <= Len(T)
           /\ Len(T[k + 1].w) = 3 /\ AllDigits(T[k + 1].w)
           /\ m > k + 2
           /\ TailMatches(T, m)
        THEN [start |-> T[k].at + j - 1,
              end |-> T[m + 2].at + 4,
              last |-> m + 2,
              dept |-> Drop(T[k].w, j - 1),
              number |-> T[k + 1].w,
              title |-> Slice(s, T[k + 2].at, T[m - 1].at + Len(T[m - 1].w)),
              units |-> T[m].w,
              season |-> T[m + 1].w,
              year |-> SubSeq(T[m + 2].w, 1, 4)]
        ELSE NoMatch

\* pattern_partial matched at word k, not before offset from; its title
\* ([A-Z][A-Za-z\s]+?) holds at least two characters
MatchPartialAt(s, T, k, from) ==
    LET j == DeptStart(T[k].w)
        m == TitleEnd(T, k + 1)
    IN  IF /\ j > 0
           /\ T[k].at + j - 1 >= from
           /\ m > k + 1
           /\ T[m - 1].at + Len(T[m - 1].w) - T[k + 1].at >= 2
           /\ TailMatches(T, m)
        THEN [start |-> T[k].at + j - 1,
              end |-> T[m + 2].at + 4,
              last |-> m + 2,
              dept |-> Drop(T[k].w, j - 1),
              number |-> "",
              title |-> Slice(s, T[k + 1].at, T[m - 1].at + Len(T[m - 1].w)),
              units |-> T[m].w,
              season |-> T[m + 1].w,
              year |-> SubSeq(T[m + 2].w, 1, 4)]
        ELSE NoMatch

MatchAt(pattern, s, T, k, from) ==
    IF pattern = "full" THEN MatchFullAt(s, T, k, from) ELSE MatchPartialAt(s, T, k, from)

\* re.finditer: the leftmost matches, none overlapping the one before; at[k] is
\* the match at word k
RECURSIVE FindIterFrom(_, _, _)
FindIterFrom(at, k, from) ==
    LET hits == {n \in k..Len(at) : at[n].start >= from}
    IN  IF hits = {} THEN <<>>
        ELSE LET mt == at[CHOOSE n \in hits : \A o \in hits : n <= o]
             IN  <<mt>> \o FindIterFrom(at, mt.last, mt.end)

finditer(pattern, s) ==
    LET T == Words(s)
    IN  FindIterFrom([k \in 1..Len(T) |-> MatchAt(pattern, s, T, k, 0)], 1, 0)

(***************************************************************************)
(* Step 4: the section assigner, the for loop over section_positions with  *)
(* its continue and break                                                  *)
(***************************************************************************)
RECURSIVE SectionLoop(_, _, _, _)
SectionLoop(i, current_section, course_pos, positions) ==
    IF i > Len(positions) THEN current_section
    ELSE IF course_pos > positions[i][1]
         THEN IF i + 1 <= Len(positions) /\ course_pos > positions[i + 1][1]
              THEN SectionLoop(i + 1, positions[i][2], course_pos, positions)   \* continue
              ELSE positions[i][2]                                             \* break
         ELSE SectionLoop(i + 1, current_section, course_pos, positions)

\* A plausible slip: break at the first boundary that precedes the candidate
SectionForFirst(course_pos, positions) ==
    LET before == {i \in 1..Len(positions) : course_pos > positions[i][1]}
    IN  IF before = {} THEN PyNone
        ELSE positions[CHOOSE i \in before : \A j \in before : i <= j][2]

\* A plausible slip: >= where the code compares with >
SectionForInclusive(course_pos, positions) ==
    LET before == {i \in 1..Len(positions) : course_pos >= positions[i][1]}
    IN  IF before = {} THEN PyNone
        ELSE positions[CHOOSE i \in before : \A j \in before : i >= j][2]

\* current_section after the loop, for a candidate at course_pos
SectionFor(course_pos, positions) == SectionLoop(1, PyNone, course_pos, positions)

(***************************************************************************)
(* Step 5: the notes extractor of the full-code loop                       *)
(***************************************************************************)
\* the least offset from i on whose character is not in the class, or the end
\* of s: where a greedy run of the class that starts at i stops
SkipWhitespace(s, i) ==
    LET stops == {j \in i..(Len(s) - 1) : Ch(s, j + 1) \notin Whitespace}
    IN  IF stops = {} THEN (IF i > Len(s) THEN i ELSE Len(s))
        ELSE CHOOSE j \in stops : \A o \in stops : j <= o

SkipNonLetters(s, i) ==
    LET stops == {j \in i..(Len(s) - 1) : IsLetter(Ch(s, j + 1))}
    IN  IF stops = {} THEN (IF i > Len(s) THEN i ELSE Len(s))
        ELSE CHOOSE j \in stops : \A o \in stops : j <= o

SkipLetters(s, i) ==
    LET stops == {j \in i..(Len(s) - 1) : ~IsLetter(Ch(s, j + 1))}
    IN  IF stops = {} THEN (IF i > Len(s) THEN i ELSE Len(s))
        ELSE CHOOSE j \in stops : \A o \in stops : j <= o

NotesWindow == 100

\* group(1) of  semester\s+(PR:[^A-Z]*(?:[A-Z]{2,4}\s+\d{3}|CHECKLIST))  matched
\* under re.IGNORECASE at offset p of window, or PyNone
NotesGroupAt(window, lw, p, semester) ==
    LET a == p + Len(semester)
        b == SkipWhitespace(lw, a)
        q == SkipNonLetters(lw, b + 3)
        e == SkipLetters(lw, q)
        d == SkipWhitespace(lw, e)
        code == /\ e - q \in 2..4
                /\ d > e
                /\ d + 3 <= Len(lw)
                /\ AllDigits(Slice(lw, d, d + 3))
        checklist == Slice(lw, q, q + 9) = "checklist"
    IN  IF /\ Ch(lw, p + 1) = lower(Ch(semester, 1))
           /\ Slice(lw, p, a) = lower(semester)
           /\ b > a
           /\ Slice(lw, b, b + 3) = "pr:"
           /\ (code \/ checklist)
        THEN Slice(window, b, IF code THEN d + 3 ELSE q + 9)
        ELSE PyNone

\* re.search of the notes pattern in the window: the leftmost match
NotesSearch(window, semester) ==
    LET lw == lower(window)
        hits == {p \in 0..Len(window) : NotesGroupAt(window, lw, p, semester) /= PyNone}
    IN  IF hits = {} THEN PyNone
        ELSE NotesGroupAt(window, lw, CHOOSE p \in hits : \A o \in hits : p <= o, semester)

\* re.sub(r'\s+(IST|CHECKLIST).*$', '', notes).strip()
TrimNotes(notes) ==
    LET cut == {i \in 0..Len(notes) :
                    /\ i < Len(notes) /\ Ch(notes, i + 1) \in Whitespace
                    /\ LET r == SkipWhitespace(notes, i)
                       IN  \/ Slice(notes, r, r + 3) = "IST"
                           \/ Slice(notes, r, r + 9) = "CHECKLIST"}
    IN  IF cut = {} THEN strip(notes)
        ELSE strip(Slice(notes, 0, CHOOSE i \in cut : \A o \in cut : i <= o))

\* notes of a full-code match
NotesOf(text, match, semester) ==
    LET found == NotesSearch(Slice(text, match.end, match.end + NotesWindow), semester)
    IN  IF found = PyNone THEN PyNone
        ELSE IF strip(found) = "" THEN "" ELSE TrimNotes(strip(found))

(***************************************************************************)
(* The two loops of _regex_extract_courses over the matches                *)
(***************************************************************************)
\* int(match.group(...)) of one digit
UnitsOf(match) == DigitValue[match.units]

SemesterOf(match) == match.season \o " " \o match.year

\* the course dict both loops build; py_type records the Python type of the value
CourseDict(course_code, title, units, semester, notes, current_section) ==
    [py_type |-> "dict",
     course_code |-> course_code,
     course_title |-> title,
     course_name |-> title,
     units |-> units,
     credits |-> units,
     semester_taken |-> semester,
     notes |-> notes,
     section |-> current_section,
     completed |-> TRUE]

\* A plausible slip: no candidate is skipped for having no section
NeverSkipped(current_section) == FALSE

\* if not current_section: continue
IsSkipped(current_section) == current_section = PyNone \/ current_section = ""

\* the list of [course, origin] that the full-code loop appends
RECURSIVE FullLoop(_, _, _, _)
FullLoop(text, positions, matches, i) ==
    IF i > Len(matches) THEN <<>>
    ELSE LET match == matches[i]
             title == strip(match.title)
             semester == SemesterOf(match)
             current_section == SectionFor(match.start, positions)
         IN  (IF IsSkipped(current_section) THEN <<>>
              ELSE <<[course |-> CourseDict(match.dept \o " " \o match.number, title,
                                            UnitsOf(match), semester,
                                            NotesOf(text, match, semester), current_section),
                      origin |-> [pos |-> match.start, pattern |-> "full"]]>>)
                \o FullLoop(text, positions, matches, i + 1)

\* A plausible slip: the duplicate test dropped
NeverDuplicate(title, built) == FALSE

\* A plausible slip: the duplicate test with its operands swapped
IsDuplicateSwapped(title, built) ==
    \E k \in 1..Len(built) : Contains(lower(title), lower(built[k].course.course_title))

\* A plausible slip: only the full-code records are looked at
IsDuplicateOfFull(title, built) ==
    \E k \in 1..Len(built) :
        /\ built[k].origin.pattern = "full"
        /\ Contains(lower(built[k].course.course_title), lower(title))

\* any(title.lower() in c['course_title'].lower() for c in courses)
IsDuplicate(title, built) ==
    \E k \in 1..Len(built) : Contains(lower(built[k].course.course_title), lower(title))

\* the partial-code loop: built is the list so far, which it extends
RECURSIVE PartialLoop(_, _, _, _)
PartialLoop(positions, matches, i, built) ==
    IF i > Len(matches) THEN built
    ELSE LET match == matches[i]
             title == strip(match.title)
             current_section == SectionFor(match.start, positions)
         IN  IF IsDuplicate(title, built) \/ IsSkipped(current_section)
             THEN PartialLoop(positions, matches, i + 1, built)
             ELSE PartialLoop(positions, matches, i + 1,
                    Append(built,
                       [course |-> CourseDict(match.dept, title, UnitsOf(match),
                                              SemesterOf(match), PyNone, current_section),
                        origin |-> [pos |-> match.start, pattern |-> "partial"]]))

\* _regex_extract_courses, with the values of its locals
RegexExtract(md) ==
    LET text == CleanText(md)
        positions == SectionPositions(text)
        fulls == finditer("full", text)
        partials == finditer("partial", text)
        built == PartialLoop(positions, partials, 1, FullLoop(text, positions, fulls, 1))
    IN  [clean_text |-> text,
         section_positions |-> positions,
         full_matches |-> fulls,
         partial_matches |-> partials,
         courses |-> [k \in 1..Len(built) |-> built[k].course],
         origins |-> [k \in 1..Len(built) |-> built[k].origin]]

(***************************************************************************)
(* extract_courses, step 3: the result dict                                *)
(***************************************************************************)
SectionKeys == <<"core_courses", "concentration_courses", "elective_courses">>

\* [c for c in courses if c.get('section') == section_type]
InSection(list, section_type) == SelectSeq(list, LAMBDA c : c.section = section_type)

\* A plausible slip: the elective list filtered with the concentration name
OrganizeSlip(list) ==
    [core_courses |-> InSection(list, "CORE"),
     concentration_courses |-> InSection(list, "CONCENTRATION"),
     elective_courses |-> InSection(list, "CONCENTRATION"),
     courses |-> list]

Organize(list) ==
    [core_courses |-> InSection(list, "CORE"),
     concentration_courses |-> InSection(list, "CONCENTRATION"),
     elective_courses |-> InSection(list, "ELECTIVE"),
     courses |-> list]

(***************************************************************************)
(* _post_process_courses: the reconciler and the field normaliser          *)
(***************************************************************************)
FallbackThreshold == 3

\* all_extracted
AllExtracted(res) ==
    Len(res.core_courses) + Len(res.concentration_courses) + Len(res.elective_courses)

\* A plausible slip: <= where the code compares with <
NeedsFallbackAtMost(res) == AllExtracted(res) <= FallbackThreshold

\* A plausible slip: the sections are filled whatever the count
NeedsFallbackAlways(res) == TRUE

\* if all_extracted < 3
NeedsFallback(res) == AllExtracted(res) < FallbackThreshold

\* A plausible slip: the fallback list replaces a section the primary populated
MergeSectionOverwrite(own, fallback_courses, section_type) ==
    IF InSection(fallback_courses, section_type) /= <<>>
    THEN InSection(fallback_courses, section_type) ELSE own

\* A plausible slip: the fallback records are added to the section's list
MergeSectionAppend(own, fallback_courses, section_type) ==
    IF own = <<>> THEN InSection(fallback_courses, section_type)
    ELSE own \o InSection(fallback_courses, section_type)

\* if not result.get(key): result[key] = [c for c in fallback_courses if ...]
MergeSection(own, fallback_courses, section_type) ==
    IF own = <<>> THEN InSection(fallback_courses, section_type) ELSE own

Merge(res, fallback_courses) ==
    [res EXCEPT
        !.core_courses = MergeSection(@, fallback_courses, "CORE"),
        !.concentration_courses = MergeSection(@, fallback_courses, "CONCENTRATION"),
        !.elective_courses = MergeSection(@, fallback_courses, "ELECTIVE")]

\* course[key] = value
SetItem(course, key, value) == (key :> value) @@ course

\* bool(semester and semester.strip())
Truthy(semester) == semester /= PyNone /\ semester /= "" /\ strip(semester) /= ""

\* the body of the loop over the courses of a section
NormalizeCourse(course) ==
    IF course.py_type /= "dict" THEN course
    ELSE LET semester == IF "semester_taken" \in DOMAIN course
                         THEN course.semester_taken ELSE ""
             c1 == SetItem(course, "completed", Truthy(semester))
             c2 == IF "course_title" \in DOMAIN c1 /\ "course_name" \notin DOMAIN c1
                   THEN SetItem(c1, "course_name", c1.course_title) ELSE c1
         IN  IF "units" \in DOMAIN c2 /\ "credits" \notin DOMAIN c2
             THEN SetItem(c2, "credits", c2.units) ELSE c2

NormalizeList(list) == [k \in 1..Len(list) |-> NormalizeCourse(list[k])]

\* The loop updates the course dicts in place.  The dicts of result['courses']
\* are those of the section lists of the result that was passed in, so the
\* updates show in that list too; the list itself is never assigned.
NormalizeFields(res) ==
    [res EXCEPT
        !.core_courses = NormalizeList(@),
        !.concentration_courses = NormalizeList(@),
        !.elective_courses = NormalizeList(@),
        !.courses = NormalizeList(@)]

(***************************************************************************)
(* Inputs                                                                  *)
(***************************************************************************)
\* the pieces a raw text is put together from
Segments ==
    <<"CISAT CORE COURSES",
      "CONCENTRATION COURSE",
      "ELECTIVE or SECOND CONCENTRATION",
      "IST 302 Databases 4 Fall 2025",
      "CS 101 DATABASES 3 spring 2026",
      "IST Databases Lab 4 Fall 2025 PR: IST 302",
      "IST databases 4 Fall 2026",
      "IST 410 Security 4 Fall 2025 PR: IST 302",
      "ist 303 networks 4 FALL 2025",
      "<td>cisat core courses</td>\nIST 305 Databases Design 4 Fall 2025&nbsp;IST 303 Networks 4 Spring 2026">>

MaxSegments == 3

RECURSIVE Join(_)
Join(pieces) ==
    IF pieces = <<>> THEN ""
    ELSE IF Len(pieces) = 1 THEN Segments[pieces[1]]
         ELSE Segments[pieces[1]] \o " " \o Join(Tail(pieces))

TextsUpTo(n) ==
    {Join(pieces) : pieces \in UNION {[1..k -> 1..Len(Segments)] : k \in 0..n}}

Texts ==
    {Join(pieces) : pieces \in UNION {[1..n -> 1..Len(Segments)] : n \in 0..MaxSegments}}

\* course records as an external extraction supplies them: dicts with the keys of
\* the CourseData schema (some with the legacy labels, some without a semester),
\* and one CourseData object
PrimaryPool ==
    <<[py_type |-> "dict", course_code |-> "IST 501", course_title |-> "Security",
       units |-> 4, semester_taken |-> "Fall 2025", notes |-> PyNone,
       section |-> "CORE", completed |-> FALSE],
      [py_type |-> "dict", course_code |-> "IST 502", course_title |-> "Analytics",
       course_name |-> "Data Analytics", units |-> 4, credits |-> 3,
       semester_taken |-> "  ", notes |-> PyNone, section |-> "CORE", completed |-> TRUE],
      [py_type |-> "dict", course_code |-> "IST 503", course_title |-> "Ethics",
       units |-> 2, semester_taken |-> PyNone, notes |-> PyNone,
       section |-> "CORE", completed |-> TRUE],
      [py_type |-> "CourseData", course_code |-> "IST 504", course_title |-> "Capstone",
       units |-> 4, waived_transferred |-> PyNone, semester_taken |-> "Spring 2026",
       notes |-> PyNone, section |-> "CORE", completed |-> FALSE],
      [py_type |-> "dict", course_code |-> "IST 505", course_title |-> "Thesis",
       units |-> 4, notes |-> PyNone, section |-> "CORE", completed |-> TRUE]>>

PrimaryCoreSizes == {0, 1, 2, 3, 5}

PrimaryConcentration ==
    {<<>>,
     <<[py_type |-> "dict", course_code |-> "IST 610", course_title |-> "Forecasting",
        units |-> 4, semester_taken |-> "Fall 2026", notes |-> "PR: IST 302",
        section |-> "CONCENTRATION", completed |-> FALSE]>>}

PrimaryElective ==
    {<<>>,
     <<[py_type |-> "dict", course_code |-> "ART 100", course_title |-> "Drawing",
        units |-> 2, semester_taken |-> "", notes |-> PyNone,
        section |-> "ELECTIVE", completed |-> TRUE]>>}

Primaries ==
    {[core_courses |-> SubSeq(PrimaryPool, 1, n),
      concentration_courses |-> conc,
      elective_courses |-> elec,
      courses |-> SubSeq(PrimaryPool, 1, n) \o conc \o elec] :
        n \in PrimaryCoreSizes, conc \in PrimaryConcentration, elec \in PrimaryElective}

\* before any call of _regex_extract_courses
NotExtracted ==
    [clean_text |-> "", section_positions |-> <<>>, full_matches |-> <<>>,
     partial_matches |-> <<>>, courses |-> <<>>, origins |-> <<>>]

NoResult == [core_courses |-> <<>>, concentration_courses |-> <<>>,
             elective_courses |-> <<>>, courses |-> <<>>]

\* before any call of parse_document_to_markdown
NotParsed == [pypdf2 |-> "not_called", landingai |-> "not_called"]

\* what the PyPDF2 path does: it returns the text of the pages (which may be
\* empty), the import fails, or anything in it raises
PyPDF2Behaviours == {"returns", "ImportError", "Exception"}

\* what self.client.parse and the loop over its chunks would do if called
LandingAIBehaviours == {"returns", "raises"}

\* A plausible slip: the fallback only for the missing package, any other
\* exception of the PyPDF2 path left to propagate
ParseFallbackOnImportErrorOnly(pdf, remote) ==
    IF pdf = "returns" THEN [pypdf2 |-> "ok", landingai |-> "not_called"]
    ELSE IF pdf = "Exception" THEN [pypdf2 |-> "raised", landingai |-> "not_called"]
    ELSE [pypdf2 |-> "raised",
          landingai |-> IF remote = "returns" THEN "ok" ELSE "raised"]

\* parse_document_to_markdown: the try, its two except clauses and
\* _parse_with_landingai
parse_document_to_markdown(pdf, remote) ==
    IF pdf = "returns" THEN [pypdf2 |-> "ok", landingai |-> "not_called"]
    ELSE [pypdf2 |-> "raised",
          landingai |-> IF remote = "returns" THEN "ok" ELSE "raised"]

\* the ways parse_document_to_markdown can end: PyPDF2 returns the text; PyPDF2
\* raises (ImportError or any Exception) and _parse_with_landingai returns it;
\* both raise
ProducerOutcomes ==
    {parse_document_to_markdown(pdf, remote) :
        pdf \in PyPDF2Behaviours, remote \in LandingAIBehaviours}

\* A plausible slip: no fallback to LandingAI when PyPDF2 raises
ProducerReturnsNoFallback(outcome) == outcome.pypdf2 = "ok"

\* parse_document_to_markdown returns a text
ProducerReturns(outcome) == outcome.pypdf2 = "ok" \/ outcome.landingai = "ok"

(***************************************************************************)
(* app.py: the Flask application, in the build without Flask-Limiter, where *)
(* limiter.limit decorates nothing and is_rate_limited throttles the logins *)
(***************************************************************************)
\* current_user of a client that is not logged in
NoUser == "<anonymous>"

\* the rows of the User table
Users == {"student", "admin", "other"}

PasswordOf == [u \in Users |-> u \o "-pass"]

Role == [u \in Users |-> IF u = "admin" THEN "admin" ELSE "user"]

\* A plausible slip: every authenticated user passes for an admin
IsAdminAnyUser(user) == TRUE

\* User.is_admin
IsAdmin(user) == Role[user] = "admin"

LOGIN_RATE_LIMIT == 5

LOGIN_RATE_WINDOW_SECONDS == 60

\* request.remote_addr of the requests
Addrs == {"10.10.10.10", "127.0.0.1"}

\* the bodies of the login requests: no JSON, a field missing, or a username
\* and a password
LoginBodies ==
    {[json |-> "none", username |-> "", password |-> ""],
     [json |-> "missing", username |-> "student", password |-> ""]}
    \cup {[json |-> "ok", username |-> u, password |-> pw] :
            u \in {"student", "admin", "nobody"}, pw \in {"student-pass", "admin-pass"}}

\* user and check_password_hash(user.password, data["password"])
CredentialsOk(body) ==
    body.username \in Users /\ PasswordOf[body.username] = body.password

\* valid_attempts of is_rate_limited
ValidAttempts(list, t) ==
    SelectSeq(list, LAMBDA attempt : t - attempt < LOGIN_RATE_WINDOW_SECONDS)

\* A plausible slip: the attempt is recorded before the limit is looked at
AttemptsCheckedAlways(list, t) == Append(ValidAttempts(list, t), t)

\* A plausible slip: the limit is passed only by a sixth recorded attempt
IsRateLimitedOver(list, t) == Len(ValidAttempts(list, t)) > LOGIN_RATE_LIMIT

\* what is_rate_limited returns
IsRateLimited(list, t) == Len(ValidAttempts(list, t)) >= LOGIN_RATE_LIMIT

\* _fallback_login_attempts[remote_addr] when is_rate_limited has returned
AttemptsChecked(list, t) ==
    IF IsRateLimited(list, t) THEN ValidAttempts(list, t)
    ELSE Append(ValidAttempts(list, t), t)

\* the address of the client whose session is modelled
ClientAddr == "127.0.0.1"

\* a request and the response to it; calls are the library and service calls
\* made on the way
Response(endpoint, addr, status, body, calls) ==
    [endpoint |-> endpoint, addr |-> addr, status |-> status, body |-> body,
     calls |-> calls]

NoRequest == Response("", ClientAddr, 0, "", {})

\* unauthorized(), the answer of login_required to a client that is not logged in
Unauthorized(endpoint) ==
    Response(endpoint, ClientAddr, 401, "Authentication required", {})

\* the last five entries of a history list
LastFive(list) ==
    IF Len(list) <= 5 THEN list ELSE SubSeq(list, Len(list) - 4, Len(list))

\* the history after the response r, given at time t
Observe(s, r, t) ==
    [logged |-> IF r.endpoint = "login" /\ r.status = 200 THEN r.body
                ELSE IF r.endpoint = "logout" /\ r.status = 200 THEN NoUser
                ELSE s.logged,
     left |-> IF r.endpoint = "login" /\ r.status = 200 THEN FALSE
              ELSE IF r.endpoint = "logout" /\ r.status = 200 THEN TRUE
              ELSE s.left,
     fails |-> IF r.endpoint = "login" /\ r.status = 401
               THEN [s.fails EXCEPT ![r.addr] = LastFive(Append(@, t))]
               ELSE s.fails,
     rejected |-> IF r.endpoint = "login" /\ r.status = 429
                  THEN [s.rejected EXCEPT ![r.addr] = t]
                  ELSE s.rejected,
     streak |-> IF r.endpoint = "login" /\ r.status = 401
                THEN [s.streak EXCEPT ![r.addr] = LastFive(Append(@, t))]
                ELSE IF r.endpoint = "login" /\ r.status = 200
                THEN [s.streak EXCEPT ![r.addr] = <<>>]
                ELSE s.streak]

\* the tables as tests/conftest.py seeds them
SeedDb ==
    [courses |-> <<[code |-> "IST 101", name |-> "Intro to IST", credits |-> 4,
                    required |-> TRUE, prerequisites |-> "[]"]>>,
     user_courses |-> <<>>,
     sheets |-> <<[user |-> "student", filename |-> "student.csv", job_id |-> "job-student"],
                  [user |-> "other", filename |-> "other.csv", job_id |-> "job-other"]>>]

\* the threads that serve requests at the same time
Workers == {"w1", "w2"}

\* a worker between two requests
Idle == [pc |-> "idle"]

WebInit ==
    /\ session = NoUser
    /\ attempts = [a \in Addrs |-> <<>>]
    /\ now = 0
    /\ db = SeedDb
    /\ files = {}
    /\ resp = NoRequest
    /\ inflight = [w \in Workers |-> Idle]
    /\ seen = [logged |-> NoUser, left |-> FALSE, fails |-> [a \in Addrs |-> <<>>],
               rejected |-> [a \in Addrs |-> -1],
               streak |-> [a \in Addrs |-> <<>>]]

(***************************************************************************)
(* The engine: one call of extract_courses or of _post_process_courses on  *)
(* a text                                                                  *)
(***************************************************************************)
Init ==
    /\ markdown \in Texts
    /\ pc = "start"
    /\ extract = NotExtracted
    /\ primary = NoResult
    /\ result = NoResult
    /\ a_pos = 0
    /\ a_bounds = <<>>
    /\ a_section = PyNone
    /\ io = NotParsed
    /\ WebInit

\* extract_courses on a file of which the producer returns the text markdown,
\* from PyPDF2 or, PyPDF2 having raised, from LandingAI
ExtractCourses ==
    /\ pc = "start"
    /\ \E outcome \in ProducerOutcomes :
         /\ ProducerReturns(outcome)
         /\ io' = outcome
    /\ extract' = RegexExtract(markdown)
    /\ result' = Organize(extract'.courses)
    /\ pc' = "extracted"
    /\ UNCHANGED <<markdown, primary, a_pos, a_bounds, a_section, web>>

\* extract_courses on a file the producer fails on: the exception of
\* _parse_with_landingai is caught and raised again as 'Failed to extract courses'
ExtractCoursesRaises ==
    /\ pc = "start"
    /\ \E outcome \in ProducerOutcomes :
         /\ ~ProducerReturns(outcome)
         /\ io' = outcome
    /\ pc' = "raised"
    /\ UNCHANGED <<markdown, extract, primary, result, a_pos, a_bounds, a_section, web>>

\* _post_process_courses(res, markdown) where the count is below the threshold
PostProcessWithFallback ==
    /\ pc = "start"
    /\ extract' = RegexExtract(markdown)
    /\ \E res \in Primaries :
         /\ NeedsFallback(res)
         /\ primary' = res
         /\ result' = NormalizeFields(Merge(res, extract'.courses))
    /\ pc' = "post_processed"
    /\ UNCHANGED <<markdown, a_pos, a_bounds, a_section, io, web>>

\* _post_process_courses(res, markdown) where it is not
PostProcessPrimaryOnly ==
    /\ pc = "start"
    /\ \E res \in Primaries :
         /\ ~NeedsFallback(res)
         /\ primary' = res
         /\ result' = NormalizeFields(res)
    /\ pc' = "post_processed"
    /\ UNCHANGED <<markdown, extract, a_pos, a_bounds, a_section, io, web>>

Next ==
    \/ ExtractCourses
    \/ ExtractCoursesRaises
    \/ PostProcessWithFallback
    \/ PostProcessPrimaryOnly

Spec == Init /\ [][Next]_vars

(***************************************************************************)
(* _post_process_courses called a second time on the dict it returned, which *)
(* is the dict it was given (line 262 returns the argument)                *)
(***************************************************************************)
MaxRerunSegments == 2

InitRerun ==
    /\ markdown \in TextsUpTo(MaxRerunSegments)
    /\ pc = "start"
    /\ extract = NotExtracted
    /\ primary = NoResult
    /\ result = NoResult
    /\ a_pos = 0
    /\ a_bounds = <<>>
    /\ a_section = PyNone
    /\ io = NotParsed
    /\ WebInit

PostProcessAgain ==
    /\ pc = "post_processed"
    /\ IF NeedsFallback(result)
       THEN /\ extract' = RegexExtract(markdown)
            /\ result' = NormalizeFields(Merge(result, extract'.courses))
       ELSE /\ extract' = extract
            /\ result' = NormalizeFields(result)
    /\ pc' = "post_processed_again"
    /\ UNCHANGED <<markdown, primary, a_pos, a_bounds, a_section, io, web>>

NextRerun == PostProcessWithFallback \/ PostProcessPrimaryOnly \/ PostProcessAgain

SpecRerun == InitRerun /\ [][NextRerun]_vars

(***************************************************************************)
(* _regex_extract_courses alone, on raw texts of markup, entities and       *)
(* whitespace                                                              *)
(***************************************************************************)
\* the pieces a raw text of markup is put together from
Pieces == <<"<", ">", "b", " ", "\n", "&lt;", "&gt", "&nbsp;", "&amp;", "lt;">>

MaxPieces == 4

RECURSIVE JoinPieces(_)
JoinPieces(list) ==
    IF list = <<>> THEN "" ELSE Pieces[Head(list)] \o JoinPieces(Tail(list))

RawTexts ==
    {JoinPieces(list) : list \in UNION {[1..n -> 1..Len(Pieces)] : n \in 0..MaxPieces}}

InitNormalize ==
    /\ markdown \in RawTexts
    /\ pc = "start"
    /\ extract = NotExtracted
    /\ primary = NoResult
    /\ result = NoResult
    /\ a_pos = 0
    /\ a_bounds = <<>>
    /\ a_section = PyNone
    /\ io = NotParsed
    /\ WebInit

\* _regex_extract_courses(markdown)
RegexExtractCourses ==
    /\ pc = "start"
    /\ extract' = RegexExtract(markdown)
    /\ pc' = "regex_extracted"
    /\ UNCHANGED <<markdown, primary, result, a_pos, a_bounds, a_section, io, web>>

NextNormalize == RegexExtractCourses

SpecNormalize == InitNormalize /\ [][NextNormalize]_vars

(***************************************************************************)
(* app.py: login, me, logout and the clock                                 *)
(***************************************************************************)
InitWeb ==
    /\ markdown = ""
    /\ pc = "serving"
    /\ extract = NotExtracted
    /\ primary = NoResult
    /\ result = NoResult
    /\ a_pos = 0
    /\ a_bounds = <<>>
    /\ a_section = PyNone
    /\ io = NotParsed
    /\ WebInit

\* A plausible slip: logout answers 200 and leaves the session as it is
SessionKept(user) == user

\* logout_user()
SessionAfterLogout(user) == NoUser

\* A plausible slip: the credentials looked at first, the limiter asked only
\* for the logins that fail
LimitedUnlessCredentialsOk(list, t, body) ==
    IsRateLimited(list, t) /\ ~CredentialsOk(body)

\* not FLASK_LIMITER_AVAILABLE and is_rate_limited(remote_addr), ahead of the
\* query for the user
Limited(list, t, body) == IsRateLimited(list, t)

\* POST /api/login from addr: validate_json_request, then is_rate_limited, then
\* the credentials
LoginFrom(addr) ==
    /\ pc = "serving"
    /\ \E body \in LoginBodies :
        IF body.json = "none"
        THEN /\ resp' = Response("login", addr, 400, "No JSON data provided", {})
             /\ UNCHANGED <<session, attempts>>
        ELSE IF body.json = "missing"
        THEN /\ resp' = Response("login", addr, 400,
                                 "Missing required fields: password", {})
             /\ UNCHANGED <<session, attempts>>
        ELSE IF Limited(attempts[addr], now, body)
        THEN /\ attempts' = [attempts EXCEPT ![addr] = AttemptsChecked(@, now)]
             /\ resp' = Response("login", addr, 429,
                                 "Too many login attempts. Please try again later.", {})
                        @@ [credentials |-> CredentialsOk(body)]
             /\ UNCHANGED session
        ELSE IF CredentialsOk(body)
        THEN /\ attempts' = [attempts EXCEPT ![addr] = <<>>]
             /\ session' = body.username
             /\ resp' = Response("login", addr, 200, body.username,
                                 {"check_password_hash"})
                        @@ [credentials |-> TRUE]
        ELSE /\ attempts' = [attempts EXCEPT ![addr] = AttemptsChecked(@, now)]
             /\ resp' = Response("login", addr, 401, "Invalid credentials",
                                 IF body.username \in Users
                                 THEN {"check_password_hash"} ELSE {})
                        @@ [credentials |-> FALSE]
             /\ UNCHANGED session
    /\ seen' = Observe(seen, resp', now)
    /\ UNCHANGED <<engine, inflight, now, db, files>>

Login == \E addr \in Addrs : LoginFrom(addr)

\* GET /api/me
Me ==
    /\ pc = "serving"
    /\ resp' = IF session = NoUser THEN Unauthorized("me")
               ELSE Response("me", ClientAddr, 200, session, {})
    /\ seen' = Observe(seen, resp', now)
    /\ UNCHANGED <<engine, inflight, session, attempts, now, db, files>>

\* POST /api/logout
Logout ==
    /\ pc = "serving"
    /\ IF session = NoUser
       THEN resp' = Unauthorized("logout") /\ session' = session
       ELSE resp' = Response("logout", ClientAddr, 200, "Logged out", {})
            /\ session' = SessionAfterLogout(session)
    /\ seen' = Observe(seen, resp', now)
    /\ UNCHANGED <<engine, inflight, attempts, now, db, files>>

TickSeconds == 60

MaxNow == 60

\* time passes
Tick ==
    /\ pc = "serving"
    /\ now + TickSeconds <= MaxNow
    /\ now' = now + TickSeconds
    /\ UNCHANGED <<engine, inflight, session, attempts, db, files, resp, seen>>

NextAuth == Login \/ Me \/ Logout \/ Tick

SpecAuth == InitWeb /\ [][NextAuth]_vars

(***************************************************************************)
(* app.py: the logins of one address, with the clock in steps shorter than  *)
(* the window of the limiter                                               *)
(***************************************************************************)
StepSeconds == 30

MaxClock == 90

\* time passes
Step ==
    /\ pc = "serving"
    /\ now + StepSeconds <= MaxClock
    /\ now' = now + StepSeconds
    /\ UNCHANGED <<engine, inflight, session, attempts, db, files, resp, seen>>

NextLimiter == LoginFrom(ClientAddr) \/ Step

SpecLimiter == InitWeb /\ [][NextLimiter]_vars

(***************************************************************************)
(* app.py: the course catalogue, the uploads and the job status            *)
(***************************************************************************)
\* the bodies of POST /api/courses
CourseBodies ==
    {[json |-> "none", code |-> "", name |-> "", credits |-> ""],
     [json |-> "missing", code |-> "IST 999", name |-> "", credits |-> ""],
     [json |-> "ok", code |-> "IST 999", name |-> "Privileged Course", credits |-> "4"],
     [json |-> "ok", code |-> "IST 101", name |-> "Intro again", credits |-> "4"],
     [json |-> "ok", code |-> "IST 998", name |-> "Words", credits |-> "four"]}

HasCourse(dbv, code) == \E i \in 1..Len(dbv.courses) : dbv.courses[i].code = code

\* create_course behind admin_required, for a logged-in user
CreateCourseAs(user, body) ==
    IF ~IsAdmin(user)
    THEN [status |-> 403, body |-> "Admin access required", db |-> db]
    ELSE IF body.json = "none"
    THEN [status |-> 400, body |-> "No data provided", db |-> db]
    ELSE IF body.json = "missing"
    THEN [status |-> 400, body |-> "Missing fields: name, credits", db |-> db]
    ELSE IF ~AllDigits(body.credits) \/ HasCourse(db, body.code)
    THEN [status |-> 400, body |-> "Failed to create course", db |-> db]
    ELSE [status |-> 201, body |-> "Course added successfully",
          db |-> [db EXCEPT !.courses =
                     Append(@, [code |-> body.code, name |-> body.name,
                                credits |-> DigitValue[body.credits], required |-> TRUE,
                                prerequisites |-> "[]"])]]

\* POST /api/courses
CreateCourse ==
    /\ pc = "serving"
    /\ \E body \in CourseBodies :
         IF session = NoUser
         THEN resp' = Unauthorized("create_course") /\ db' = db
         ELSE LET out == CreateCourseAs(session, body)
              IN  /\ resp' = Response("create_course", ClientAddr, out.status, out.body, {})
                  /\ db' = out.db
    /\ seen' = Observe(seen, resp', now)
    /\ UNCHANGED <<engine, inflight, session, attempts, now, files>>

JobIds == {"job-student", "job-other", "job-new", "job-unknown"}

\* A plausible slip: the sheets of every user are searched
AnyoneOwnsJobId(user_id, job_id) ==
    \E i \in 1..Len(db.sheets) : db.sheets[i].job_id = job_id

\* user_owns_job_id
user_owns_job_id(user_id, job_id) ==
    \E i \in 1..Len(db.sheets) :
        db.sheets[i].user = user_id /\ db.sheets[i].job_id = job_id

\* GET /api/upload/status/<job_id>; get_job_status returns or raises
UploadStatus ==
    /\ pc = "serving"
    /\ \E job_id \in JobIds, remote \in {"returns", "raises"} :
         resp' =
            (IF session = NoUser THEN Unauthorized("upload_status")
             ELSE IF ~user_owns_job_id(session, job_id)
             THEN Response("upload_status", ClientAddr, 404, "Job not found", {})
             ELSE IF remote = "raises"
             THEN Response("upload_status", ClientAddr, 500,
                           "Failed to fetch upload status", {"get_job_status"})
             ELSE Response("upload_status", ClientAddr, 200, "processing",
                           {"get_job_status"}))
            @@ [request |-> job_id]
    /\ seen' = Observe(seen, resp', now)
    /\ UNCHANGED <<engine, inflight, session, attempts, now, db, files>>

DEFAULT_MAX_CONTENT_LENGTH == 16777216

ALLOWED_EXTENSIONS == {"pdf", "xlsx", "xls", "csv"}

ALLOWED_MIME_TYPES ==
    {"application/pdf", "application/vnd.ms-excel",
     "application/vnd.openxmlformats-officedocument.spreadsheetml.sheet",
     "text/csv", "application/csv", "application/octet-stream"}

\* werkzeug's secure_filename on ASCII names: path separators become spaces,
\* the words are joined by '_', characters outside [A-Za-z0-9_.-] are dropped
\* and '.' and '_' are stripped from both ends
RECURSIVE SepToSpace(_)
SepToSpace(s) ==
    IF s = "" THEN ""
    ELSE (IF Ch(s, 1) = "/" THEN " " ELSE Ch(s, 1)) \o SepToSpace(Drop(s, 1))

RECURSIVE AsciiStrip(_)
AsciiStrip(s) ==
    IF s = "" THEN ""
    ELSE (IF Ch(s, 1) = " " THEN "_"
          ELSE IF IsWordChar(Ch(s, 1)) \/ Ch(s, 1) \in {".", "-"} THEN Ch(s, 1)
          ELSE "") \o AsciiStrip(Drop(s, 1))

RECURSIVE StripDots(_)
StripDots(s) ==
    IF s /= "" /\ Ch(s, 1) \in {".", "_"} THEN StripDots(Drop(s, 1))
    ELSE IF s /= "" /\ Ch(s, Len(s)) \in {".", "_"} THEN StripDots(Slice(s, 0, Len(s) - 1))
    ELSE s

secure_filename(name) ==
    StripDots(AsciiStrip(CollapseWhitespace(strip(SepToSpace(name)))))

\* filename.rsplit(".", 1)[1].lower()
ExtensionOf(filename) ==
    LET dots == {i \in 1..Len(filename) : Ch(filename, i) = "."}
        last == CHOOSE i \in dots : \A o \in dots : o <= i
    IN  lower(Slice(filename, last, Len(filename)))

\* A plausible slip: the MIME type is not looked at
AllowedByExtension(filename, mimetype) ==
    Contains(filename, ".") /\ ExtensionOf(filename) \in ALLOWED_EXTENSIONS

is_allowed_upload(filename, mimetype) ==
    /\ Contains(filename, ".")
    /\ ExtensionOf(filename) \in ALLOWED_EXTENSIONS
    /\ ~(mimetype /= "" /\ mimetype \notin ALLOWED_MIME_TYPES)

\* the multipart requests of the uploads
UploadRequest(content_length, file_part, filename, mimetype) ==
    [content_length |-> content_length, file_part |-> file_part,
     filename |-> filename, mimetype |-> mimetype]

UploadRequests ==
    {UploadRequest(DEFAULT_MAX_CONTENT_LENGTH + 1, TRUE, "sheet.pdf", "application/pdf"),
     UploadRequest(DEFAULT_MAX_CONTENT_LENGTH + 1, TRUE, "malware.exe", ""),
     UploadRequest(DEFAULT_MAX_CONTENT_LENGTH + 1, FALSE, "", ""),
     UploadRequest(DEFAULT_MAX_CONTENT_LENGTH, TRUE, "sheet.pdf", "application/pdf"),
     UploadRequest(3, TRUE, "sheet.p?df", "application/pdf"),
     UploadRequest(3, FALSE, "", ""),
     UploadRequest(3, TRUE, "", ""),
     UploadRequest(3, TRUE, "??", "application/pdf"),
     UploadRequest(3, TRUE, "../.pdf", "application/pdf"),
     UploadRequest(3, TRUE, "sheet", ""),
     UploadRequest(3, TRUE, "malware.exe", ""),
     UploadRequest(3, TRUE, "malware.exe", "application/pdf"),
     UploadRequest(3, TRUE, "sheet.pdf", "text/html"),
     UploadRequest(3, TRUE, "Plan 1.CSV", "")}

\* what the checks of upload and upload_async answer before anything is saved;
\* status 0 when the request passes them
Rejection(endpoint, req) ==
    IF req.content_length > DEFAULT_MAX_CONTENT_LENGTH
    THEN Response(endpoint, ClientAddr, 413,
                  "File too large. Maximum allowed size is 16MB", {})
    ELSE IF ~req.file_part
    THEN Response(endpoint, ClientAddr, 400, "No file part", {})
    ELSE IF req.filename = ""
    THEN Response(endpoint, ClientAddr, 400, "No selected file", {})
    ELSE IF secure_filename(req.filename) = ""
    THEN Response(endpoint, ClientAddr, 400, "Invalid filename", {})
    ELSE IF ~is_allowed_upload(secure_filename(req.filename), req.mimetype)
    THEN Response(endpoint, ClientAddr, 400,
                  "Invalid file type. Allowed: PDF, XLSX, XLS, CSV", {})
    ELSE Response(endpoint, ClientAddr, 0, "", {})

\* what extract_courses can return for an uploaded file
UploadResults ==
    {Organize(<<>>),
     Organize(<<CourseDict("IST 302", "Databases", 4, "Fall 2025", PyNone, "CORE")>>),
     Organize(<<CourseDict("IST 101", "Intro", 4, "Fall 2025", PyNone, "CORE"),
                CourseDict("IST 302", "Databases", 4, "Spring 2026", PyNone, "ELECTIVE")>>)}

\* how the work behind a saved file can end: the extractor raises; a step of
\* the persistence raises once the sheet and the first done courses are in the
\* session (an add, a flush or, with every course done, the commit); or the
\* extractor returns and the rows are committed
UploadOutcomes ==
    {[kind |-> "extract_raises", data |-> Organize(<<>>), done |-> 0]}
    \cup UNION {{[kind |-> "persist_raises", data |-> r, done |-> k] :
                    k \in 0..Len(r.courses)} : r \in UploadResults}
    \cup {[kind |-> "ok", data |-> r, done |-> Len(r.courses)] : r \in UploadResults}

\* the Course row of the code, added when there is none
WithCourse(dbv, c) ==
    IF HasCourse(dbv, c.course_code) THEN dbv
    ELSE [dbv EXCEPT !.courses =
             Append(@, [code |-> c.course_code,
                        name |-> IF "course_name" \in DOMAIN c /\ c.course_name /= ""
                                 THEN c.course_name ELSE c.course_title,
                        credits |-> c.credits, required |-> TRUE,
                        prerequisites |-> "[]"])]

\* the UserCourse row of the user and the course, updated or added
WithUserCourse(dbv, user, c) ==
    LET row == [user |-> user, code |-> c.course_code, completed |-> c.completed,
                grade |-> "", semester_taken |-> c.semester_taken]
        at == {i \in 1..Len(dbv.user_courses) :
                  dbv.user_courses[i].user = user
                  /\ dbv.user_courses[i].code = c.course_code}
    IN  IF at = {} THEN [dbv EXCEPT !.user_courses = Append(@, row)]
        ELSE [dbv EXCEPT !.user_courses[CHOOSE i \in at : \A o \in at : i <= o] = row]

\* the loop of upload over extracted_data['courses']
RECURSIVE PersistCourses(_, _, _)
PersistCourses(dbv, user, list) ==
    IF list = <<>> THEN dbv
    ELSE IF Head(list).course_code \in {PyNone, ""}
    THEN PersistCourses(dbv, user, Tail(list))
    ELSE PersistCourses(WithUserCourse(WithCourse(dbv, Head(list)), user, Head(list)),
                        user, Tail(list))

MaxSheets == 3

\* the rows of the session of upload, committed or not, when the work ends
Pending(user, filename, outcome) ==
    IF outcome.kind = "extract_raises" THEN db
    ELSE PersistCourses(
            [db EXCEPT !.sheets =
                Append(@, [user |-> user, filename |-> filename, job_id |-> PyNone])],
            user,
            SubSeq(outcome.data.courses, 1, outcome.done))

\* what upload has called when the work ends
UploadCalls(outcome, pending) ==
    {"file.save", "extract_courses"}
    \cup (IF outcome.kind = "extract_raises" THEN {} ELSE {"db.session.add"})
    \cup (IF pending.courses /= db.courses THEN {"db.session.flush"} ELSE {})
    \cup (IF outcome.kind = "ok" THEN {"db.session.commit"} ELSE {"db.session.rollback"})

\* A plausible slip: what was flushed before the exception stays
RollbackKeepsPending(committed, pending) == pending

\* db.session.rollback()
Rollback(committed, pending) == committed

\* POST /api/upload
Upload ==
    /\ pc = "serving"
    /\ \E req \in UploadRequests :
         LET filename == secure_filename(req.filename)
         IN  IF session = NoUser
             THEN /\ resp' = Unauthorized("upload") @@ [request |-> req]
                  /\ UNCHANGED <<db, files>>
             ELSE IF Rejection("upload", req).status /= 0
             THEN /\ resp' = Rejection("upload", req) @@ [request |-> req]
                  /\ UNCHANGED <<db, files>>
             ELSE \E outcome \in UploadOutcomes :
                  LET pending == Pending(session, filename, outcome)
                  IN  IF outcome.kind /= "ok"
                      THEN
                      /\ files' = files \cup {filename}
                      /\ resp' = Response("upload", ClientAddr, 500,
                                          "Failed to process uploaded file",
                                          UploadCalls(outcome, pending))
                                 @@ [request |-> req]
                      /\ db' = Rollback(db, pending)
                      ELSE
                      /\ Len(db.sheets) < MaxSheets
                      /\ files' = files \cup {filename}
                      /\ db' = pending
                      /\ resp' = Response("upload", ClientAddr, 200,
                                          "File uploaded and courses extracted successfully",
                                          UploadCalls(outcome, pending))
                                 @@ [request |-> req, extracted_data |-> outcome.data]
    /\ seen' = Observe(seen, resp', now)
    /\ UNCHANGED <<engine, inflight, session, attempts, now>>

\* POST /api/upload/async; extract_courses_async returns a new job id or raises
UploadAsync ==
    /\ pc = "serving"
    /\ \E req \in UploadRequests :
         LET filename == secure_filename(req.filename)
             calls == {"file.save", "extract_courses_async"}
         IN  IF session = NoUser
             THEN /\ resp' = Unauthorized("upload_async") @@ [request |-> req]
                  /\ UNCHANGED <<db, files>>
             ELSE IF Rejection("upload_async", req).status /= 0
             THEN /\ resp' = Rejection("upload_async", req) @@ [request |-> req]
                  /\ UNCHANGED <<db, files>>
             ELSE \E remote \in {"returns", "raises"} :
                  IF remote = "raises"
                  THEN
                  /\ files' = files \cup {filename}
                  /\ resp' = Response("upload_async", ClientAddr, 500,
                                      "Failed to create extraction job", calls)
                             @@ [request |-> req]
                  /\ db' = db
                  ELSE
                  /\ Len(db.sheets) < MaxSheets
                  /\ ~\E i \in 1..Len(db.sheets) : db.sheets[i].job_id = "job-new"
                  /\ files' = files \cup {filename}
                  /\ db' = [db EXCEPT !.sheets =
                               Append(@, [user |-> session, filename |-> filename,
                                          job_id |-> "job-new"])]
                  /\ resp' = Response("upload_async", ClientAddr, 202, "job-new", calls)
                             @@ [request |-> req]
    /\ seen' = Observe(seen, resp', now)
    /\ UNCHANGED <<engine, inflight, session, attempts, now>>

\* the bodies of POST /api/user/courses
UserCourseBodies ==
    {[json |-> "none", course_code |-> "", completed |-> FALSE, semester_taken |-> ""],
     [json |-> "ok", course_code |-> "IST 404", completed |-> FALSE,
      semester_taken |-> "Fall 2025"],
     [json |-> "ok", course_code |-> "IST 101", completed |-> FALSE,
      semester_taken |-> "Fall 2025"],
     [json |-> "ok", course_code |-> "IST 101", completed |-> TRUE,
      semester_taken |-> "Spring 2026"]}

\* UserCourse.query.filter_by(user_id=..., course_id=...).first(): the index
\* of the row, 0 for None
FirstUserCourse(dbv, user, code) ==
    LET at == {i \in 1..Len(dbv.user_courses) :
                  dbv.user_courses[i].user = user /\ dbv.user_courses[i].code = code}
    IN  IF at = {} THEN 0 ELSE CHOOSE i \in at : \A o \in at : i <= o

MaxUserCourses == 3

\* POST /api/user/courses on worker w, up to and including the query for the
\* user's row of the course (lines 415-427)
UserCoursesQuery(w) ==
    /\ pc = "serving"
    /\ inflight[w] = Idle
    /\ \E body \in UserCourseBodies :
         IF session = NoUser
         THEN /\ resp' = Unauthorized("user_courses")
              /\ inflight' = inflight
         ELSE IF body.json = "none"
         THEN /\ resp' = Response("user_courses", ClientAddr, 400,
                                  "course_code is required", {})
              /\ inflight' = inflight
         ELSE IF ~HasCourse(db, body.course_code)
         THEN /\ resp' = Response("user_courses", ClientAddr, 404, "Course not found", {})
              /\ inflight' = inflight
         ELSE /\ resp' = resp
              /\ inflight' = [inflight EXCEPT ![w] =
                                 [pc |-> "queried", user |-> session, body |-> body,
                                  user_course |-> FirstUserCourse(db, session,
                                                                  body.course_code)]]
    /\ seen' = Observe(seen, resp', now)
    /\ UNCHANGED <<engine, session, attempts, now, db, files>>

\* the rest of the request on worker w: the row found is updated, or a row is
\* added, and the session is committed (lines 429-444)
UserCoursesCommit(w) ==
    /\ pc = "serving"
    /\ inflight[w] /= Idle
    /\ LET req == inflight[w]
           row == [user |-> req.user, code |-> req.body.course_code,
                   completed |-> req.body.completed, grade |-> "",
                   semester_taken |-> req.body.semester_taken]
       IN  IF req.user_course /= 0
           THEN db' = [db EXCEPT !.user_courses[req.user_course] = row]
           ELSE /\ Len(db.user_courses) < MaxUserCourses
                /\ db' = [db EXCEPT !.user_courses = Append(@, row)]
    /\ resp' = Response("user_courses", ClientAddr, 200, "Course updated successfully", {})
    /\ inflight' = [inflight EXCEPT ![w] = Idle]
    /\ seen' = Observe(seen, resp', now)
    /\ UNCHANGED <<engine, session, attempts, now, files>>

\* a user logged in, whose requests the workers serve with their steps interleaved
InitConcurrent ==
    /\ markdown = ""
    /\ pc = "serving"
    /\ extract = NotExtracted
    /\ primary = NoResult
    /\ result = NoResult
    /\ a_pos = 0
    /\ a_bounds = <<>>
    /\ a_section = PyNone
    /\ io = NotParsed
    /\ session \in {NoUser, "student", "other"}
    /\ attempts = [a \in Addrs |-> <<>>]
    /\ now = 0
    /\ db = SeedDb
    /\ files = {}
    /\ resp = NoRequest
    /\ inflight = [w \in Workers |-> Idle]
    /\ seen = [logged |-> session, left |-> FALSE, fails |-> [a \in Addrs |-> <<>>],
               rejected |-> [a \in Addrs |-> -1],
               streak |-> [a \in Addrs |-> <<>>]]

NextConcurrent == \E w \in Workers : UserCoursesQuery(w) \/ UserCoursesCommit(w)

SpecConcurrent == InitConcurrent /\ [][NextConcurrent]_vars

\* a client that is not logged in, or is logged in as a user or as the admin
InitApi ==
    /\ markdown = ""
    /\ pc = "serving"
    /\ extract = NotExtracted
    /\ primary = NoResult
    /\ result = NoResult
    /\ a_pos = 0
    /\ a_bounds = <<>>
    /\ a_section = PyNone
    /\ io = NotParsed
    /\ session \in {NoUser, "student", "admin"}
    /\ attempts = [a \in Addrs |-> <<>>]
    /\ now = 0
    /\ db = SeedDb
    /\ files = {}
    /\ resp = NoRequest
    /\ inflight = [w \in Workers |-> Idle]
    /\ seen = [logged |-> session, left |-> FALSE, fails |-> [a \in Addrs |-> <<>>],
               rejected |-> [a \in Addrs |-> -1],
               streak |-> [a \in Addrs |-> <<>>]]

NextApi == CreateCourse \/ UploadStatus \/ Upload \/ UploadAsync

SpecApi == InitApi /\ [][NextApi]_vars

(***************************************************************************)
(* The section assigner alone, on every position and boundary list         *)
(***************************************************************************)
MaxOffset == 5

Boundaries == (0..MaxOffset) \X {"CORE", "CONCENTRATION", "ELECTIVE"}

\* the lists section_positions can be: ascending offsets, one entry per section
BoundaryLists ==
    {list \in UNION {[1..n -> Boundaries] : n \in 0..3} :
        \A i, j \in 1..Len(list) :
            i < j => list[i][1] < list[j][1] /\ list[i][2] /= list[j][2]}

InitAssign ==
    /\ markdown = ""
    /\ pc = "assign_in"
    /\ extract = NotExtracted
    /\ primary = NoResult
    /\ result = NoResult
    /\ a_pos \in 0..MaxOffset
    /\ a_bounds \in BoundaryLists
    /\ a_section = PyNone
    /\ io = NotParsed
    /\ WebInit

\* the section loop run for a candidate at a_pos
Assign ==
    /\ pc = "assign_in"
    /\ a_section' = SectionFor(a_pos, a_bounds)
    /\ pc' = "assign_out"
    /\ UNCHANGED <<markdown, extract, primary, result, a_pos, a_bounds, io, web>>

NextAssign == Assign

SpecAssign == InitAssign /\ [][NextAssign]_vars

(***************************************************************************)
(* Properties.  They are stated with the definitions below, not with the   *)
(* operators that model the code.                                          *)
(***************************************************************************)
Kinds == {"CORE", "CONCENTRATION", "ELECTIVE"}

KindOf == ("core_courses" :> "CORE") @@ ("concentration_courses" :> "CONCENTRATION") @@
          ("elective_courses" :> "ELECTIVE")

Keys == DOMAIN KindOf

\* the kind of the boundary with the largest offset strictly less than pos
NearestPreceding(pos, list) ==
    LET before == {k \in 1..Len(list) : list[k][1] < pos}
    IN  IF before = {} THEN PyNone
        ELSE list[CHOOSE k \in before : \A j \in before : list[j][1] <= list[k][1]][2]

\* the records of list whose section is kind, in order
OfKind(list, kind) == SelectSeq(list, LAMBDA c : c.section = kind)

TotalRecords(res) ==
    Len(res.core_courses) + Len(res.concentration_courses) + Len(res.elective_courses)

\* title a is a case-insensitive substring of title b
WithinCI(a, b) ==
    LET la == lower(a)
        lb == lower(b)
    IN  \E i \in 0..(Len(lb) - Len(la)) : Slice(lb, i, i + Len(la)) = la

\* courses[i] was built from match m of the given pattern
BuiltFrom(i, m, pattern) == extract.origins[i] = [pos |-> m.start, pattern |-> pattern]

Realized(m, pattern) == \E i \in 1..Len(extract.courses) : BuiltFrom(i, m, pattern)

Extracted == pc = "extracted"
PostProcessed == pc = "post_processed"

\* C1: the section the loop assigns to a candidate is the kind of the boundary
\* with the largest offset strictly less than the candidate's position, and none
\* when no boundary is strictly less.
C1_AssignsNearestPrecedingBoundary ==
    pc = "assign_out" => a_section = NearestPreceding(a_pos, a_bounds)

\* three boundaries, two of them before the candidate, the nearer one assigned
C1_Witness ==
    /\ pc = "assign_out"
    /\ Len(a_bounds) = 3
    /\ a_bounds[2][1] < a_pos
    /\ a_pos <= a_bounds[3][1]
    /\ a_section = a_bounds[2][2]

\* got is the list src, each record with the fields it had, completed apart
\* (the field normaliser rewrites completed and may add labels)
SameRecords(got, src) ==
    /\ Len(got) = Len(src)
    /\ \A i \in 1..Len(src) :
         \A f \in DOMAIN src[i] \ {"completed"} :
            f \in DOMAIN got[i] /\ got[i][f] = src[i][f]

\* the list the reconciler is to give for a section
Reconciled(key) ==
    IF TotalRecords(primary) < 3 /\ primary[key] = <<>>
    THEN OfKind(extract.courses, KindOf[key])
    ELSE primary[key]

\* C2: each reconciled section list is the local list of that section when the
\* primary holds fewer than 3 records in all and none in that section, and the
\* primary's own list otherwise; primary and local records are never mixed.
C2_ReconciledSectionIsLocalOrPrimary ==
    PostProcessed => \A key \in Keys : SameRecords(result[key], Reconciled(key))

\* a primary with no record, a local result with at least 3 core records, and
\* the local core list in the result
C2_Witness ==
    /\ PostProcessed
    /\ TotalRecords(primary) = 0
    /\ Len(OfKind(extract.courses, "CORE")) >= 3
    /\ result.core_courses = OfKind(extract.courses, "CORE")

\* the local result for the text: what _regex_extract_courses returns for it
LocalCount(kind) == Len(OfKind(RegexExtract(markdown).courses, kind))

\* primary with 5 core and 0 concentration records, local with 2 core and 1
\* concentration record
ScenarioC ==
    /\ PostProcessed
    /\ Len(primary.core_courses) = 5
    /\ primary.concentration_courses = <<>>
    /\ LocalCount("CORE") = 2
    /\ LocalCount("CONCENTRATION") = 1

\* C3 as claimed: in scenario C the result keeps the primary's 5 core records
\* and adopts the local result's 1 concentration record.
C3_ScenarioCAdoptsLocalConcentration ==
    ScenarioC =>
        /\ SameRecords(result.core_courses, primary.core_courses)
        /\ SameRecords(result.concentration_courses,
                       OfKind(RegexExtract(markdown).courses, "CONCENTRATION"))

\* C3 as amended: in scenario C the result keeps the primary's 5 core records
\* and its concentration list stays empty, the primary's count of 5 not being
\* below the threshold.
C3_ScenarioCKeepsPrimaryOnly ==
    ScenarioC =>
        /\ SameRecords(result.core_courses, primary.core_courses)
        /\ result.concentration_courses = <<>>

C3_Witness == ScenarioC /\ Len(result.core_courses) = 5

\* semester_taken is present and non-empty after trimming
HasSemester(c) ==
    /\ "semester_taken" \in DOMAIN c
    /\ c.semester_taken /= PyNone
    /\ \E i \in 1..Len(c.semester_taken) : Ch(c.semester_taken, i) \notin Whitespace

\* C4 as claimed: in every result the engine returns, every record of every
\* section has completed = TRUE exactly when its semester_taken is present and
\* non-empty after trimming, whatever the primary supplied.
C4_CompletionLaw ==
    (Extracted \/ PostProcessed) =>
        \A key \in Keys : \A i \in 1..Len(result[key]) :
            result[key][i].completed = HasSemester(result[key][i])

TitlesEqualCI(a, b) == lower(a) = lower(b)

\* C5 as claimed: no two records of the same section of the local extraction
\* result have titles that are equal when compared case-insensitively.
C5_NoEqualTitlesInSection ==
    Extracted =>
        \A i, j \in 1..Len(extract.courses) :
            (i < j /\ extract.courses[i].section = extract.courses[j].section)
                => ~TitlesEqualCI(extract.courses[i].course_title,
                                  extract.courses[j].course_title)

\* C5 as amended: two records of the same section of the local extraction result
\* have case-insensitively equal titles only if both come from full-code matches.
C5_EqualTitlesOnlyAmongFullCode ==
    Extracted =>
        \A i, j \in 1..Len(extract.courses) :
            (/\ i < j
             /\ extract.courses[i].section = extract.courses[j].section
             /\ TitlesEqualCI(extract.courses[i].course_title,
                              extract.courses[j].course_title))
                => /\ extract.origins[i].pattern = "full"
                   /\ extract.origins[j].pattern = "full"

\* a partial-code match with the title of a record of its own section, dropped
C5_Witness ==
    /\ Extracted
    /\ \E k \in 1..Len(extract.partial_matches) :
         LET m == extract.partial_matches[k]
         IN  /\ ~Realized(m, "partial")
             /\ \E i \in 1..Len(extract.courses) :
                  /\ extract.courses[i].section
                        = NearestPreceding(m.start, extract.section_positions)
                  /\ TitlesEqualCI(extract.courses[i].course_title, m.title)

\* a full-code record and a partial-code match of the same section
SameSectionPair(i, m) ==
    /\ extract.origins[i].pattern = "full"
    /\ extract.courses[i].section = NearestPreceding(m.start, extract.section_positions)

\* C6 as claimed: a full-code match and a partial-code match of the same section
\* whose titles are substring-related, either way round, leave at most one
\* record for the title: the partial-code match gives no record.
C6_SubstringRelatedEitherWay ==
    Extracted =>
        \A k \in 1..Len(extract.partial_matches) : \A i \in 1..Len(extract.courses) :
            LET m == extract.partial_matches[k]
            IN  (/\ SameSectionPair(i, m)
                 /\ \/ WithinCI(m.title, extract.courses[i].course_title)
                    \/ WithinCI(extract.courses[i].course_title, m.title))
                    => ~Realized(m, "partial")

\* C6 as amended: a partial-code match whose title is a case-insensitive
\* substring of the title of a full-code record of the same section gives no
\* record.
C6_PartialWithinFullTitleDropped ==
    Extracted =>
        \A k \in 1..Len(extract.partial_matches) : \A i \in 1..Len(extract.courses) :
            LET m == extract.partial_matches[k]
            IN  (SameSectionPair(i, m) /\ WithinCI(m.title, extract.courses[i].course_title))
                    => ~Realized(m, "partial")

\* a partial-code match dropped for a full-code record of its section whose
\* title is longer than, and holds, its own
C6_Witness ==
    /\ Extracted
    /\ \E k \in 1..Len(extract.partial_matches) : \E i \in 1..Len(extract.courses) :
         LET m == extract.partial_matches[k]
         IN  /\ SameSectionPair(i, m)
             /\ WithinCI(m.title, extract.courses[i].course_title)
             /\ Len(m.title) < Len(extract.courses[i].course_title)
             /\ \A j \in 1..Len(extract.courses) :
                    ~TitlesEqualCI(extract.courses[j].course_title, m.title)
             /\ ~Realized(m, "partial")

AllMatches ==
    {[m |-> extract.full_matches[k], pattern |-> "full"] :
        k \in 1..Len(extract.full_matches)}
    \cup {[m |-> extract.partial_matches[k], pattern |-> "partial"] :
            k \in 1..Len(extract.partial_matches)}

BeforeEveryBoundary(m) ==
    \A k \in 1..Len(extract.section_positions) : m.start < extract.section_positions[k][1]

AfterLastBoundary(m) ==
    /\ extract.section_positions /= <<>>
    /\ m.start > extract.section_positions[Len(extract.section_positions)][1]

LastKind == extract.section_positions[Len(extract.section_positions)][2]

\* C7: a candidate positioned before every section boundary gives no record; a
\* candidate positioned after the last boundary is assigned that boundary's
\* section (every such full-code candidate gives a record of it); a text with
\* no anchor phrase gives an empty result.
C7_BoundaryLaw ==
    (Extracted \/ PostProcessed) =>
        /\ \A c \in AllMatches : BeforeEveryBoundary(c.m) => ~Realized(c.m, c.pattern)
        /\ \A i \in 1..Len(extract.courses) :
              (/\ extract.section_positions /= <<>>
               /\ extract.origins[i].pos
                    > extract.section_positions[Len(extract.section_positions)][1])
                 => extract.courses[i].section = LastKind
        /\ \A k \in 1..Len(extract.full_matches) :
              AfterLastBoundary(extract.full_matches[k])
                 => Realized(extract.full_matches[k], "full")
        /\ (Extracted /\ extract.section_positions = <<>>) => result = NoResult

\* a text with a candidate before its boundaries and one after the last of them
C7_Witness ==
    /\ Extracted
    /\ extract.section_positions /= <<>>
    /\ \E c \in AllMatches : BeforeEveryBoundary(c.m)
    /\ \E c \in AllMatches :
         /\ AfterLastBoundary(c.m)
         /\ \E i \in 1..Len(extract.courses) :
              BuiltFrom(i, c.m, c.pattern) /\ extract.courses[i].section = LastKind

\* the section's anchor phrase occurs, case-insensitively, at offset j of lowered
Occurs(kind, lowered, j) ==
    LET phrase == lower(section_patterns[kind])
    IN  Ch(lowered, j + 1) = Ch(phrase, 1) /\ Slice(lowered, j, j + Len(phrase)) = phrase

\* C8: the boundary list is strictly ascending by offset, holds at most one
\* boundary per section kind, each at the offset of the first case-insensitive
\* occurrence of the kind's anchor phrase; kinds whose phrase does not occur
\* are absent.
C8_BoundariesAscendingFirstOccurrences ==
    Extracted =>
    LET sp == extract.section_positions
        lowered == lower(extract.clean_text)
    IN  /\ \A i, j \in 1..Len(sp) : i < j => sp[i][1] < sp[j][1] /\ sp[i][2] /= sp[j][2]
        /\ \A i \in 1..Len(sp) :
              /\ sp[i][2] \in Kinds
              /\ Occurs(sp[i][2], lowered, sp[i][1])
              /\ \A j \in 0..(sp[i][1] - 1) : ~Occurs(sp[i][2], lowered, j)
        /\ \A kind \in Kinds :
              (\A i \in 1..Len(sp) : sp[i][2] /= kind)
                 => \A j \in 0..Len(lowered) : ~Occurs(kind, lowered, j)

\* a text whose sections come in another order than CORE, CONCENTRATION,
\* ELECTIVE, one of them absent
C8_Witness ==
    /\ Extracted
    /\ Len(extract.section_positions) = 2
    /\ extract.section_positions[1][2] = "ELECTIVE"
    /\ extract.section_positions[2][2] = "CORE"

\* C9 as claimed: in every result the engine returns, the flattened list is the
\* concatenation of the core, concentration and elective lists, in that order.
C9_FlattenedIsConcatenation ==
    (Extracted \/ PostProcessed) =>
        result.courses
            = result.core_courses \o result.concentration_courses \o result.elective_courses

\* C10: every record extract_courses returns carries one of the three sections
\* and is in the list of that section and in no other; the lengths of the three
\* lists sum to the length of the flattened list, and every record stems from a
\* candidate that has a boundary before it.
C10_EveryRecordInItsOneSection ==
    Extracted =>
        /\ \A i \in 1..Len(result.courses) : result.courses[i].section \in Kinds
        /\ \A key \in Keys : result[key] = OfKind(result.courses, KindOf[key])
        /\ TotalRecords(result) = Len(result.courses)
        /\ \A i \in 1..Len(extract.courses) :
              NearestPreceding(extract.origins[i].pos, extract.section_positions)
                 = extract.courses[i].section

\* three records in two sections, the elective ones first in the text
C10_Witness ==
    /\ Extracted
    /\ Len(result.core_courses) = 2
    /\ Len(result.elective_courses) = 1
    /\ result.courses[1].section = "ELECTIVE"

\* C11: extract_courses raises exactly when the text producer failed, that is
\* when PyPDF2 and the LandingAI fallback both raised; for every text the
\* producer returns it returns a result, and for the empty text all lists of
\* the result are empty.
C11_RaisesExactlyWhenProducerFailed ==
    (pc \in {"extracted", "raised"}) =>
        /\ (pc = "raised") <=> (io.pypdf2 = "raised" /\ io.landingai = "raised")
        /\ (pc = "extracted") <=> (io.pypdf2 = "ok" \/ io.landingai = "ok")
        /\ (pc = "extracted" /\ markdown = "") =>
              \A key \in Keys \cup {"courses"} : result[key] = <<>>

\* the empty text, returned by the LandingAI fallback after PyPDF2 raised
C11_Witness ==
    /\ Extracted
    /\ markdown = ""
    /\ io = [pypdf2 |-> "raised", landingai |-> "ok"]
    /\ result = NoResult

\* C12: a second run of the reconciler and field normaliser on the same text
\* and on the very result object of the first run leaves the result as the
\* first run left it.
C12_SecondRunChangesNothing == [][PostProcessAgain => result' = result]_vars

\* a second run after a first run that took a section from the local result
\* and still left fewer than 3 records
C12_Witness ==
    /\ pc = "post_processed_again"
    /\ result.core_courses /= primary.core_courses
    /\ AllExtracted(result) < FallbackThreshold

\* C13 as claimed: the call changes nothing visible outside it: the primary
\* result handed to the reconciler, which is the object the reconciler returns,
\* holds after the call the values it held before.
C13_PrimaryUnchangedByCall ==
    PostProcessed => result = primary

Mirrored(course) ==
    /\ {"course_title", "course_name", "units", "credits"} \subseteq DOMAIN course
    /\ course.course_name = course.course_title
    /\ course.credits = course.units

\* C14 as claimed: after normalisation every record of every section of the
\* merged result has course_name equal to course_title and credits equal to
\* units, whichever of the labels it carried before.
C14_LabelsMirrored ==
    PostProcessed =>
        \A key \in Keys : \A i \in 1..Len(result[key]) : Mirrored(result[key][i])

\* 'PR:' at offset b of the lowered window lw, followed by free text that a
\* full course code or the word CHECKLIST ends; the offset where that ends
NoteEnd(lw, b) ==
    LET q == SkipNonLetters(lw, b + 3)
        e == SkipLetters(lw, q)
        d == SkipWhitespace(lw, e)
    IN  IF Slice(lw, b, b + 3) /= "pr:" THEN -1
        ELSE IF e - q \in 2..4 /\ d > e /\ d + 3 <= Len(lw) /\ AllDigits(Slice(lw, d, d + 3))
             THEN d + 3
        ELSE IF Slice(lw, q, q + 9) = "checklist" THEN q + 9
        ELSE -1

\* the notes the claim gives a record whose semester match is followed by window
ClaimedNotes(window) ==
    LET lw == lower(window)
        hits == {b \in 0..Len(lw) : NoteEnd(lw, b) /= -1}
        first == CHOOSE b \in hits : \A o \in hits : b <= o
    IN  IF hits = {} THEN PyNone
        ELSE TrimNotes(strip(Slice(window, first, NoteEnd(lw, first))))

\* C15 as claimed: the notes of a full-code record are the 'PR: ...' text found
\* in the 100 characters after the end of its semester match, trimmed, and are
\* absent when the window holds no such text.
C15_NotesFromWindowAfterSemester ==
    Extracted =>
        \A i \in 1..Len(extract.courses) : \A k \in 1..Len(extract.full_matches) :
            BuiltFrom(i, extract.full_matches[k], "full") =>
                extract.courses[i].notes
                    = ClaimedNotes(Slice(extract.clean_text, extract.full_matches[k].end,
                                         extract.full_matches[k].end + NotesWindow))

\* a step that is a login request with a username and a password from addr
LoginAttemptFrom(addr) ==
    /\ now' = now
    /\ resp'.endpoint = "login"
    /\ resp'.addr = addr
    /\ resp'.status /= 400

\* five logins answered 401 lie in the window that ends now
FiveInWindow(list) ==
    Len(list) = 5 /\ now - list[1] < LOGIN_RATE_WINDOW_SECONDS

\* C17 as claimed: after five failed logins from an address within the window,
\* each answered 401, every further login from that address inside the window
\* is answered 429.
C17_FiveFailuresThen429 ==
    [][\A addr \in Addrs :
          (LoginAttemptFrom(addr) /\ FiveInWindow(seen.fails[addr]))
             => resp'.status = 429]_vars

\* C17 as amended: after five failed logins from an address within the window,
\* with no successful login from that address among them, every further login
\* from that address inside the window is answered 429 and leaves the session
\* as it is; the failed logins of other addresses play no part.
C17_FiveFailuresInARowThen429 ==
    [][\A addr \in Addrs :
          LoginAttemptFrom(addr) =>
             /\ FiveInWindow(seen.streak[addr])
                   => resp'.status = 429 /\ session' = session
             /\ resp'.status = 429 => FiveInWindow(seen.streak[addr])]_vars

\* a login answered 429 at one address while the other address, with four
\* failures of its own, is not limited
C17_Witness ==
    /\ resp.endpoint = "login"
    /\ resp.status = 429
    /\ resp.addr = "10.10.10.10"
    /\ FiveInWindow(seen.streak["10.10.10.10"])
    /\ Len(seen.streak["127.0.0.1"]) = 4

\* C16: GET /api/me answers 200 with the identity of the last successful login
\* exactly when a login succeeded and no logout followed it, and 401
\* otherwise; POST /api/logout is answered 401 exactly when nobody is logged
\* in, so that from a logout to the next successful login every request to
\* these login-protected endpoints is answered 401.  Who is logged in is read
\* from the responses the client has received (seen.logged).
C16_SessionLifecycle ==
    [][/\ Me => IF seen.logged = NoUser
                THEN resp'.status = 401
                ELSE resp'.status = 200 /\ resp'.body = seen.logged
       /\ Logout => IF seen.logged = NoUser
                    THEN resp'.status = 401
                    ELSE resp'.status = 200
       /\ (Me \/ Logout) /\ seen.left => resp'.status = 401]_vars

\* a client that logged in and out again asks for /api/me and is turned away
C16_Witness ==
    /\ resp.endpoint = "me"
    /\ resp.status = 401
    /\ seen.left
    /\ seen.logged = NoUser

\* C18: POST /api/courses adds a course only for an admin.  A client that is
\* not logged in is answered 401, a logged-in user whose role is not admin is
\* answered 403 with 'Admin access required', and in both cases the Course
\* table is what it was; whenever the table changes the requester is an admin
\* and the answer is 201.
C18_OnlyAdminCreatesCourse ==
    [][CreateCourse =>
         /\ session = NoUser =>
                resp'.status = 401 /\ db'.courses = db.courses
         /\ (session \in Users /\ Role[session] /= "admin") =>
                /\ resp'.status = 403
                /\ resp'.body = "Admin access required"
                /\ db'.courses = db.courses
         /\ db'.courses /= db.courses =>
                /\ session \in Users
                /\ Role[session] = "admin"
                /\ resp'.status = 201]_vars

\* the student of the test asks for a course and is refused
C18_Witness ==
    /\ resp.endpoint = "create_course"
    /\ resp.status = 403
    /\ session = "student"
    /\ db.courses = SeedDb.courses

\* the sheets of the user who asks record the job
Owned(user, job_id) ==
    \E i \in 1..Len(db.sheets) :
        db.sheets[i].user = user /\ db.sheets[i].job_id = job_id

\* C19: GET /api/upload/status/<job_id> by a logged-in user gives the job's
\* status (200) only for a job recorded in a sheet of that user; for every
\* other job id, one of another user included, the answer is 404 and
\* get_job_status is not called.
C19_StatusOnlyForOwnJobs ==
    (resp.endpoint = "upload_status" /\ session /= NoUser) =>
        /\ resp.status = 200 => Owned(session, resp.request)
        /\ "get_job_status" \in resp.calls => Owned(session, resp.request)
        /\ ~Owned(session, resp.request) => resp.status = 404

\* the student asks for the job of the other user
C19_Witness ==
    /\ resp.endpoint = "upload_status"
    /\ session = "student"
    /\ resp.request = "job-other"
    /\ resp.status = 404
    /\ resp.calls = {}

\* the body is larger than MAX_CONTENT_LENGTH
TooLarge(req) == req.content_length > DEFAULT_MAX_CONTENT_LENGTH

\* the name ends in a dot and an allowed extension, in any letter case
HasAllowedExtension(name) ==
    \E e \in ALLOWED_EXTENSIONS :
        /\ Len(name) > Len(e)
        /\ lower(SubSeq(name, Len(name) - Len(e), Len(name))) = "." \o e

\* the part names a MIME type and it is not an allowed one
HasDisallowedMimeType(req) ==
    req.mimetype /= "" /\ req.mimetype \notin ALLOWED_MIME_TYPES

\* the request is one of those the validation has to refuse with 400.  The
\* extension is that of the name the file would be stored under, which is the
\* name upload hands to is_allowed_upload.
Invalid(req) ==
    \/ ~req.file_part
    \/ req.filename = ""
    \/ ~HasAllowedExtension(secure_filename(req.filename))
    \/ HasDisallowedMimeType(req)

\* C20: POST /api/upload by a logged-in client: a body larger than
\* MAX_CONTENT_LENGTH is answered 413; a body within the limit with no file
\* part, an empty filename, an extension that is not allowed or a MIME type
\* that is not allowed is answered 400; and whenever the request is rejected
\* (400, 413, or 401 for a client that is not logged in) no file is saved,
\* extract_courses is not called and no table changes.
C20_RejectedUploadHasNoEffect ==
    [][resp'.endpoint = "upload" =>
         LET req == resp'.request
         IN  /\ (session /= NoUser /\ TooLarge(req)) => resp'.status = 413
             /\ (session /= NoUser /\ ~TooLarge(req) /\ Invalid(req)) =>
                    resp'.status = 400
             /\ session = NoUser => resp'.status = 401
             /\ resp'.status \in {400, 401, 413} =>
                    /\ files' = files
                    /\ db' = db
                    /\ resp'.calls \cap {"file.save", "extract_courses"} = {}]_vars

\* the student of the test sends malware.exe, after an upload that was stored
C20_Witness ==
    /\ resp.endpoint = "upload"
    /\ session = "student"
    /\ resp.request.filename = "malware.exe"
    /\ resp.status = 400
    /\ files /= {}
    /\ Len(db.sheets) = Len(SeedDb.sheets) + 1

\* record i was accepted before the partial-code match m was looked at: it is a
\* full-code record, or a partial-code record from earlier in the text
AcceptedBefore(i, m) ==
    \/ extract.origins[i].pattern = "full"
    \/ extract.origins[i].pattern = "partial" /\ extract.origins[i].pos < m.start

\* the title of m lies within the title of a record accepted before it
Suppressed(m) ==
    \E i \in 1..Len(extract.courses) :
        AcceptedBefore(i, m) /\ WithinCI(m.title, extract.courses[i].course_title)

\* C21: a partial-code candidate that lies in a section becomes a record
\* exactly when its title, compared case-insensitively, is not a substring
\* of the title of a candidate accepted before it: a full-code record of any
\* section, or a partial-code record from earlier in the text.
C21_PartialAcceptedUnlessWithinEarlierTitle ==
    Extracted =>
        \A k \in 1..Len(extract.partial_matches) :
            LET m == extract.partial_matches[k]
            IN  NearestPreceding(m.start, extract.section_positions) /= PyNone
                    => (Realized(m, "partial") <=> ~Suppressed(m))

\* a partial-code candidate of a section dropped for an earlier partial-code
\* record alone, and one that became a record
C21_Witness ==
    /\ Extracted
    /\ \E k \in 1..Len(extract.partial_matches) :
         LET m == extract.partial_matches[k]
         IN  /\ NearestPreceding(m.start, extract.section_positions) /= PyNone
             /\ ~Realized(m, "partial")
             /\ \A i \in 1..Len(extract.courses) :
                    WithinCI(m.title, extract.courses[i].course_title)
                        => extract.origins[i].pattern = "partial"
    /\ \E i \in 1..Len(extract.courses) : extract.origins[i].pattern = "partial"

\* C22 as claimed: both patterns accept a department code only when it is 2
\* to 4 uppercase letters, the season word alone being matched in any letter
\* case: no candidate of either pattern has a department code with a
\* lowercase letter.
C22_DepartmentCodeUppercase ==
    Extracted =>
        \A c \in AllMatches :
            /\ Len(c.m.dept) \in 2..4
            /\ \A i \in 1..Len(c.m.dept) : Ch(c.m.dept, i) \in UpperLetters

\* C23 as claimed: the notes extractor looks at the window after the semester
\* text of a partial-code candidate as it does for a full-code one: a
\* partial-code record whose semester is followed within the window by a
\* 'PR:' annotation has that annotation as its notes.
C23_PartialCodeNotes ==
    Extracted =>
        \A i \in 1..Len(extract.courses) : \A k \in 1..Len(extract.partial_matches) :
            LET m == extract.partial_matches[k]
                noted == ClaimedNotes(Slice(extract.clean_text, m.end, m.end + NotesWindow))
            IN  (BuiltFrom(i, m, "partial") /\ noted /= PyNone)
                    => extract.courses[i].notes = noted

\* the text with every tag span, '<', one or more characters other than '>',
\* '>', taken out from left to right and sep put in its place
RECURSIVE TagsReplaced(_, _)
TagsReplaced(s, sep) ==
    LET closes == {k \in 3..Len(s) :
                      Ch(s, k) = ">" /\ \A j \in 2..(k - 1) : Ch(s, j) /= ">"}
    IN  IF s = "" THEN ""
        ELSE IF Ch(s, 1) = "<" /\ closes /= {}
        THEN sep \o TagsReplaced(Drop(s, CHOOSE k \in closes : TRUE), sep)
        ELSE Ch(s, 1) \o TagsReplaced(Drop(s, 1), sep)

\* the character references of the raw texts and the characters they stand for
References == {<<"&lt", "<">>, <<"&gt", ">">>, <<"&amp", "&">>, <<"&nbsp", NBSP>>,
               <<"&quot", "\"">>}

\* the text with every character reference, with or without its ';', decoded
\* once, from left to right
RECURSIVE Decoded(_)
Decoded(s) ==
    LET here == {r \in References : Slice(s, 0, Len(r[1])) = r[1]}
        r == CHOOSE x \in here : TRUE
        n == IF Ch(s, Len(r[1]) + 1) = ";" THEN Len(r[1]) + 1 ELSE Len(r[1])
    IN  IF s = "" THEN ""
        ELSE IF here /= {} THEN r[2] \o Decoded(Drop(s, n))
        ELSE Ch(s, 1) \o Decoded(Drop(s, 1))

\* the text with every run of whitespace turned into one space
RECURSIVE RunsCollapsed(_)
RunsCollapsed(s) ==
    IF s = "" THEN ""
    ELSE IF Ch(s, 1) \in Whitespace
    THEN (IF Ch(s, 2) \in Whitespace THEN "" ELSE " ") \o RunsCollapsed(Drop(s, 1))
    ELSE Ch(s, 1) \o RunsCollapsed(Drop(s, 1))

RegexExtracted == pc = "regex_extracted"

C25_FallbackOnlyAfterPyPDF2Raised ==
    (pc \in {"extracted", "raised"}) =>
        /\ io.pypdf2 \in {"ok", "raised"}
        /\ (io.landingai /= "not_called") <=> (io.pypdf2 = "raised")
        /\ (pc = "raised") => io.landingai = "raised"
        /\ (io.landingai = "raised") => pc = "raised"

\* PyPDF2 returned the empty text and LandingAI was left alone
C25_Witness ==
    /\ Extracted
    /\ markdown = ""
    /\ io = [pypdf2 |-> "ok", landingai |-> "not_called"]

\* the entry of the extracted list that decides the rows of its course code:
\* the last one with that code
Deciding(list, i) == \A j \in (i + 1)..Len(list) : list[j].course_code /= list[i].course_code

\* the tables hold the sheet and every course and user-course change of the
\* request of user that extracted data
CommittedTogether(before, after, user, data) ==
    /\ Len(after.sheets) = Len(before.sheets) + 1
    /\ SubSeq(after.sheets, 1, Len(before.sheets)) = before.sheets
    /\ after.sheets[Len(after.sheets)].user = user
    /\ SubSeq(after.courses, 1, Len(before.courses)) = before.courses
    /\ \A i \in 1..Len(data.courses) :
          LET c == data.courses[i]
          IN  /\ \E k \in 1..Len(after.courses) : after.courses[k].code = c.course_code
              /\ Deciding(data.courses, i) =>
                    \E k \in 1..Len(after.user_courses) :
                        /\ after.user_courses[k].user = user
                        /\ after.user_courses[k].code = c.course_code
                        /\ after.user_courses[k].semester_taken = c.semester_taken
                        /\ after.user_courses[k].completed = c.completed

\* C26: POST /api/upload is all-or-nothing in the database.  When the
\* extraction or a step of the persistence raises, the answer is 500 and the
\* tables are what they were before the request; when it succeeds the sheet
\* and every course and user-course change of the request are in the tables;
\* the tables change on a 200 only.
C26_UploadAllOrNothing ==
    [][resp'.endpoint = "upload" =>
         /\ resp'.status = 500 => db' = db
         /\ resp'.status = 200 =>
                CommittedTogether(db, db', session, resp'.extracted_data)
         /\ db' /= db => resp'.status = 200]_vars

\* an upload that failed after a Course row had been flushed, and left the
\* tables as seeded
C26_Witness ==
    /\ resp.endpoint = "upload"
    /\ resp.status = 500
    /\ {"db.session.flush", "db.session.rollback"} \subseteq resp.calls
    /\ db = SeedDb
    /\ files /= {}

\* C27 as claimed: whatever the requests and however the steps of concurrent
\* requests of a user interleave, the UserCourse table holds at most one row
\* per (user, course) pair.
C27_OneRowPerUserAndCourse ==
    \A i, j \in 1..Len(db.user_courses) :
        (/\ i < j
         /\ db.user_courses[i].user = db.user_courses[j].user)
            => db.user_courses[i].code /= db.user_courses[j].code

\* the recorded attempts of list that are less than a window before t
Recent(list, t) == {i \in 1..Len(list) : t - list[i] < LOGIN_RATE_WINDOW_SECONDS}

\* C28: a login from an address at time t is answered 429 exactly when at
\* least 5 attempts of the address are recorded less than 60 seconds before
\* t.  The recorded attempts are those the limiter let through and that were
\* answered 401 since the last login answered 200 (a 200 erases the record, a
\* 429 records nothing): the record the code keeps is that list, cut to the
\* window.  Hence an address is accepted again once 60 seconds have passed
\* since the oldest of its recorded attempts, whatever it was refused
\* meanwhile.
C28_SlidingWindowOfRecordedAttempts ==
    [][\A addr \in Addrs :
          LoginAttemptFrom(addr) =>
             /\ (resp'.status = 429)
                    <=> (Cardinality(Recent(seen.streak[addr], now)) >= LOGIN_RATE_LIMIT)
             /\ attempts'[addr]
                    = SelectSeq(seen'.streak[addr],
                                LAMBDA r : now - r < LOGIN_RATE_WINDOW_SECONDS)
             /\ (/\ seen.streak[addr] /= <<>>
                 /\ now - seen.streak[addr][1] >= LOGIN_RATE_WINDOW_SECONDS)
                    => resp'.status \in {200, 401}]_vars

\* an address with five failures at time 0, refused at time 30, is let
\* through at time 60
C28_Witness ==
    /\ now = 60
    /\ resp.endpoint = "login"
    /\ resp.addr = ClientAddr
    /\ resp.status = 401
    /\ seen.streak[ClientAddr] = <<0, 0, 0, 0, 60>>
    /\ seen.rejected[ClientAddr] = 30

\* the limiter holds addr back: five recorded attempts lie in the window
RateLimited(addr) == Cardinality(Recent(seen.streak[addr], now)) >= LOGIN_RATE_LIMIT

\* C29: while an address is rate-limited, a login from it is answered 429 and
\* establishes no session, its username and password being right or wrong,
\* and the password is not compared.
C29_LimitBeforeCredentials ==
    [][\A addr \in Addrs :
          (LoginAttemptFrom(addr) /\ RateLimited(addr)) =>
             /\ resp'.status = 429
             /\ session' = session
             /\ seen'.logged = seen.logged
             /\ "check_password_hash" \notin resp'.calls]_vars

\* the right username and password, refused, and nobody logged in
C29_Witness ==
    /\ resp.endpoint = "login"
    /\ resp.status = 429
    /\ resp.credentials
    /\ resp.calls = {}
    /\ session = NoUser

\* C30: a request adds a row to the Course table only when it is made by an
\* admin user; the requests of the other users, uploads included, leave the
\* Course table as it was.
C30_CourseRowsOnlyFromAdmin ==
    [][db'.courses /= db.courses => (session \in Users /\ IsAdmin(session))]_vars

====
